---- MODULE Spec2Model ----
(***************************************************************************)
(* Cohort batch-evaluation workflow of backend/app/services/               *)
(* cohort_service.py with its HTTP handlers (routers/cohorts.py).          *)
(*                                                                         *)
(* One asyncio event loop runs the request handlers and the background     *)
(* tasks.  A step of the model is what runs between two suspension points: *)
(* the database operation a coroutine was awaiting takes effect, then the  *)
(* synchronous code after it runs up to the next awaited database          *)
(* operation.  Awaits that do no I/O (Session.get of an object already in  *)
(* the session's identity map, Session.delete, the synchronous Anthropic   *)
(* client called inside ClaudeClient.analyze_company) do not yield and are *)
(* part of the step around them; asyncio.sleep and the closing of a        *)
(* session touch no shared state and are folded into the step before them. *)
(*                                                                         *)
(* A Session keeps its own copy of the rows it loaded (expire_on_commit is *)
(* False); a commit writes the columns whose value differs from the copy,  *)
(* and an UPDATE that matches no row raises StaleDataError and rolls the   *)
(* transaction back.                                                       *)
(***************************************************************************)
EXTENDS Integers, Sequences, FiniteSets, Bags, TLC

\* ---------------------------------------------------------------- bounds
MaxInput == 3        \* longest list of names in the request of SpecCreate
MaxCohorts == 3      \* cohort ids a request can name
MaxTicks == 2        \* times the clock advances
TickHours == 13      \* hours per advance of the clock
InitClock == 30      \* the clock's value when the service starts

\* ------------------------------------------------------ program constants
REUSE_THRESHOLD_HOURS == 24
MAX_COMPANIES == 25

\* ------------------------------------------------------------------ names
\* A name is a sequence of one-character strings.
NoName == <<>>
RawNames == { <<"A">>, <<"a">>, <<" ", "A", " ">>, <<"B">>, <<" ">> }

IsSpace(c) == c = " "

RECURSIVE LStrip(_)
LStrip(s) == IF s # <<>> /\ IsSpace(Head(s)) THEN LStrip(Tail(s)) ELSE s

RECURSIVE RStrip(_)
RStrip(s) ==
    IF s # <<>> /\ IsSpace(s[Len(s)]) THEN RStrip(SubSeq(s, 1, Len(s) - 1)) ELSE s

\* str.strip()
Strip(s) == RStrip(LStrip(s))

LowerChar(c) == CASE c = "A" -> "a" [] c = "B" -> "b" [] c = "C" -> "c" [] OTHER -> c

\* str.lower()
Lower(s) == [k \in 1..Len(s) |-> LowerChar(s[k])]

\* A cleaning loop that compares the stripped names as written, without
\* lower-casing them.
RECURSIVE DedupLoopCaseSensitive(_, _, _)
DedupLoopCaseSensitive(names, seen, acc) ==
    IF names = <<>> THEN acc
    ELSE LET stripped == Strip(Head(names)) IN
         IF stripped # <<>> /\ stripped \notin seen
         THEN DedupLoopCaseSensitive(Tail(names), seen \cup {stripped},
                                     Append(acc, stripped))
         ELSE DedupLoopCaseSensitive(Tail(names), seen, acc)

\* The loop "for n in names: stripped = n.strip(); if stripped and
\* stripped.lower() not in seen: seen.add(...); clean.append(stripped)".
RECURSIVE DedupLoop(_, _, _)
DedupLoop(names, seen, acc) ==
    IF names = <<>> THEN acc
    ELSE LET stripped == Strip(Head(names)) IN
         IF stripped # <<>> /\ Lower(stripped) \notin seen
         THEN DedupLoop(Tail(names), seen \cup {Lower(stripped)}, Append(acc, stripped))
         ELSE DedupLoop(Tail(names), seen, acc)

SeqRange(s) == { s[k] : k \in 1..Len(s) }

Max(a, b) == IF a >= b THEN a ELSE b

\* -------------------------------------------------------------- the state
VARIABLES
    cohorts,     \* table cohorts: id -> row (status "none": no such row)
    nextCohort,  \* the next autoincrement id of table cohorts
    members,     \* table cohort_members: a bag of [cohort, eval, pos]
    evals,       \* table evaluations: a set of [id, name, created]
    active,      \* CohortService._active_tasks: cohort id -> task id, 0: no entry
    tasks,       \* every asyncio task created so far, by task id
    reqs,        \* the HTTP requests of the run: not yet sent, in flight, answered
    clock,       \* datetime.now(timezone.utc), in hours
    scores,      \* the score columns of the evaluations persisted, in order
    shown,       \* what a read path of the evaluations last returned
    cached_all,  \* NewsAggregator._cached_all
    news,        \* the last call on the NewsAggregator and what it met
    input,       \* the argument of a function under study
    output,      \* its result
    heap,        \* the item dicts that caches and lists share, by identity
    procs,       \* the coroutines running refresh_news or get_all_news
    caches       \* the _cache dict of each adapter: key -> (items, timestamp)

\* The variables outside the cohort workflow.
\* The item dicts, the news coroutines and the adapters' caches.
runtime == <<heap, procs, caches>>

others == <<scores, shown, cached_all, news, input, output, runtime>>

vars == <<cohorts, nextCohort, members, evals, active, tasks, reqs, clock, others>>

CohortIds == 1..MaxCohorts
Requests == {"r1", "r2"}

NoRow == [status |-> "none", total |-> 0, completed |-> 0, current |-> NoName]

Exists(c) == cohorts[c].status # "none"

\* Session.commit() of a session whose copy of the row was `base` and is now
\* `new`: the UPDATE sets the columns that changed.
Flush(row, base, new) ==
    [status    |-> IF new.status # base.status THEN new.status ELSE row.status,
     total     |-> IF new.total # base.total THEN new.total ELSE row.total,
     completed |-> IF new.completed # base.completed THEN new.completed ELSE row.completed,
     current   |-> IF new.current # base.current THEN new.current ELSE row.current]

\* The UPDATE matches no row: sqlalchemy.orm.exc.StaleDataError.
Stale(c, base, new) == new # base /\ ~Exists(c)

MembersOf(c) == { m \in BagToSet(members) : m.cohort = c }

\* ------------------------------------------------------------------ tasks
DoneTask(c, kind, pc) ==
    [cid |-> c, kind |-> kind, names |-> <<>>, start |-> 0, i |-> 0, pc |-> pc,
     snap |-> NoRow, ev |-> 0, reply |-> NoName, failed |-> {}]

\* asyncio.create_task(self._analyze_batch(...)) or (..._analyze_batch_append(...))
NewTask(c, kind, names, start) ==
    [cid |-> c, kind |-> kind, names |-> names, start |-> start, i |-> 1,
     pc |-> IF names = <<>> THEN "fin_get" ELSE "get",
     snap |-> NoRow, ev |-> 0, reply |-> NoName, failed |-> {}]

TaskIds == 1..Len(tasks)

\* asyncio.Task.done()
Done(t) == tasks[t].pc \in {"done", "cancelled", "crashed"}

Unfinished(c) == { t \in TaskIds : tasks[t].cid = c /\ ~Done(t) }

\* --------------------------------------------------------------- requests
NewReq ==
    [op |-> "none", pc |-> "new", cid |-> 0, add |-> <<>>, rm |-> <<>>,
     snap |-> NoRow, found |-> EmptyBag, clean |-> <<>>, start |-> 0, res |-> "none"]

\* The request is answered: 200 ("ok"), 400 ("rejected"), 404 ("notfound"),
\* or an exception no handler catches, 500 ("failed").
Answered(op, c, res) == [NewReq EXCEPT !.op = op, !.pc = "done", !.cid = c, !.res = res]

\* The same, keeping the names the request carried.
AnsweredWith(op, c, res, add) == [Answered(op, c, res) EXCEPT !.add = add]

\* Requests are sent in the order r1, r2.
Sendable(r) == reqs[r].pc = "new" /\ (r = "r2" => reqs["r1"].pc # "new")

\* ------------------------------------------------------------------- Init
\* The service starts with an empty task registry over whatever the database
\* holds from earlier runs: nothing; evaluations only (single-entity
\* analyses of 30, 24 and 1 hours ago); or one cohort that completed 30
\* hours ago with two members.
EmptyDB ==
    [cohorts |-> [c \in CohortIds |-> NoRow], nextCohort |-> 1,
     members |-> EmptyBag, evals |-> {}]

EvalsDB ==
    [cohorts |-> [c \in CohortIds |-> NoRow], nextCohort |-> 1,
     members |-> EmptyBag,
     evals |-> { [id |-> 1, name |-> <<"A">>, created |-> InitClock - 30],
                 [id |-> 2, name |-> <<"B">>, created |-> InitClock - 24],
                 [id |-> 3, name |-> <<"a">>, created |-> InitClock - 1] }]

CohortDB ==
    [cohorts |-> [c \in CohortIds |->
                    IF c = 1
                    THEN [status |-> "complete", total |-> 2, completed |-> 2,
                          current |-> NoName]
                    ELSE NoRow],
     nextCohort |-> 2,
     members |-> SetToBag({ [cohort |-> 1, eval |-> 1, pos |-> 0],
                            [cohort |-> 1, eval |-> 2, pos |-> 1] }),
     evals |-> { [id |-> 1, name |-> <<"A">>, created |-> InitClock - 30],
                 [id |-> 2, name |-> <<"B">>, created |-> InitClock - 30] }]

InitDBs == { EmptyDB, EvalsDB, CohortDB }

\* Nothing evaluated, queried or cached yet.
NoCall ==
    [op |-> "none", refreshed |-> FALSE, raised |-> FALSE, before |-> 0,
     completed |-> 0, calls |-> 0]
NoValue == <<>>

RuntimeIdle == heap = <<>> /\ procs = <<>> /\ caches = <<>>

OthersIdle ==
    /\ RuntimeIdle
    /\ scores = <<>>
    /\ shown = NoValue
    /\ cached_all = <<>>
    /\ news = NoCall
    /\ input = NoValue
    /\ output = NoValue

CohortsAt(db) ==
    /\ cohorts = db.cohorts
    /\ nextCohort = db.nextCohort
    /\ members = db.members
    /\ evals = db.evals
    /\ active = [c \in CohortIds |-> 0]
    /\ tasks = <<>>
    /\ reqs = [r \in Requests |-> NewReq]
    /\ clock = InitClock

InitWith(db) == CohortsAt(db) /\ OthersIdle

Init == \E db \in InitDBs : InitWith(db)

\* ------------------------------------------------- POST /api/cohorts
\* routers/cohorts.py create_cohort, then CohortService.create_cohort up to
\* its first commit: the names are cleaned and the row is inserted.
CreateCohort(r, raw) ==
    /\ Sendable(r)
    /\ IF raw = <<>> \/ Len(raw) > MAX_COMPANIES
       THEN /\ reqs' = [reqs EXCEPT ![r] = AnsweredWith("create", 0, "rejected", raw)]
            /\ UNCHANGED <<cohorts, nextCohort>>
       ELSE /\ nextCohort <= MaxCohorts
            /\ LET clean == DedupLoop(raw, {}, <<>>) IN
               /\ cohorts' = [cohorts EXCEPT ![nextCohort] =
                                [status |-> "analyzing", total |-> Len(clean),
                                 completed |-> 0,
                                 current |-> IF clean # <<>> THEN clean[1] ELSE NoName]]
               /\ reqs' = [reqs EXCEPT ![r] =
                             [NewReq EXCEPT !.op = "create", !.pc = "refresh",
                                            !.cid = nextCohort, !.add = raw,
                                            !.clean = clean]]
            /\ nextCohort' = nextCohort + 1
    /\ UNCHANGED <<members, evals, active, tasks, clock, others>>

\* db.refresh(cohort) returned: the task is created and registered.  The row
\* gone (a delete in between) makes refresh raise InvalidRequestError.
CreateRefresh(r) ==
    /\ reqs[r].op = "create" /\ reqs[r].pc = "refresh"
    /\ LET c == reqs[r].cid IN
       IF Exists(c)
       THEN /\ tasks' = Append(tasks, NewTask(c, "batch", reqs[r].clean, 0))
            /\ active' = [active EXCEPT ![c] = Len(tasks) + 1]
            /\ reqs' = [reqs EXCEPT ![r] = AnsweredWith("create", c, "ok", reqs[r].add)]
       ELSE /\ reqs' = [reqs EXCEPT ![r] = AnsweredWith("create", c, "failed", reqs[r].add)]
            /\ UNCHANGED <<tasks, active>>
    /\ UNCHANGED <<cohorts, nextCohort, members, evals, clock, others>>

\* ------------------------------------ _analyze_batch / _analyze_batch_append
\* The two coroutines differ in the position of a link (i against
\* start_pos + i) and in the progress write (= i + 1 against += 1).
Entity(t) == tasks[t].names[tasks[t].i]

\* After an entity (linked, or skipped by "except Exception"): the session is
\* closed, asyncio.sleep(1), the next entity or the final block.
Advance(t, rec) ==
    IF rec.i < Len(rec.names)
    THEN [rec EXCEPT !.i = rec.i + 1, !.pc = "get", !.snap = NoRow, !.ev = 0,
                     !.reply = NoName]
    ELSE [rec EXCEPT !.i = 0, !.pc = "fin_get", !.snap = NoRow, !.ev = 0,
                     !.reply = NoName]

\* A task without the handler: the exception of one entity ends the task.
SkipEndsTask(t) == DoneTask(tasks[t].cid, tasks[t].kind, "crashed")

Skip(t) == Advance(t, [tasks[t] EXCEPT !.failed = @ \cup {tasks[t].i}])

\* cohort = await db.get(Cohort, cohort_id); if not cohort: return
TaskGet(t) ==
    /\ tasks[t].pc = "get"
    /\ LET c == tasks[t].cid IN
       tasks' = [tasks EXCEPT ![t] =
                   IF Exists(c)
                   THEN [@ EXCEPT !.pc = "cur_commit", !.snap = cohorts[c]]
                   ELSE DoneTask(c, @.kind, "done")]
    /\ UNCHANGED <<cohorts, nextCohort, members, evals, active, reqs, clock, others>>

\* cohort.current_company = company_name; await db.commit()
TaskCurCommit(t) ==
    /\ tasks[t].pc = "cur_commit"
    /\ LET c == tasks[t].cid
           base == tasks[t].snap
           new == [base EXCEPT !.current = Entity(t)] IN
       IF Stale(c, base, new)
       THEN /\ tasks' = [tasks EXCEPT ![t] = Skip(t)]
            /\ UNCHANGED cohorts
       ELSE /\ cohorts' = [cohorts EXCEPT ![c] = Flush(@, base, new)]
            /\ tasks' = [tasks EXCEPT ![t] = [@ EXCEPT !.pc = "lookup", !.snap = new]]
    /\ UNCHANGED <<nextCohort, members, evals, active, reqs, clock, others>>

\* A lookup without the cutoff: every evaluation of this name, whatever its age.
RecentEvalsAnyAge(name, now) == { e \in evals : Lower(e.name) = Lower(name) }

\* The evaluations of this name (case-insensitive) created at or after the
\* cutoff, and among them the ones ".order_by(created_at.desc()).limit(1)"
\* can return.
RecentEvals(name, now) ==
    { e \in evals : /\ Lower(e.name) = Lower(name)
                    /\ e.created >= now - REUSE_THRESHOLD_HOURS }

NewestRecent(name, now) ==
    { e \in RecentEvals(name, now) :
        \A f \in RecentEvals(name, now) : f.created <= e.created }

\* raw.get("company_name", company_name): the collaborator's own name for the
\* company, or the requested name.
ReplyNames(name) == { name }

\* The select of a recent evaluation returned.  One found: it is reused and
\* the link is added to the session.  None: the collaborator is called (a
\* synchronous call: no suspension); it raises, or returns and the new
\* Evaluation is added to the session.
TaskLookup(t) ==
    /\ tasks[t].pc = "lookup"
    /\ LET found == NewestRecent(Entity(t), clock) IN
       IF found # {}
       THEN \E e \in found :
              tasks' = [tasks EXCEPT ![t] = [@ EXCEPT !.pc = "link", !.ev = e.id]]
       ELSE \/ tasks' = [tasks EXCEPT ![t] = Skip(t)]
            \/ \E rn \in ReplyNames(Entity(t)) :
                 tasks' = [tasks EXCEPT ![t] = [@ EXCEPT !.pc = "save_eval", !.reply = rn]]
    /\ UNCHANGED <<cohorts, nextCohort, members, evals, active, reqs, clock, others>>

NextEvalId == Cardinality(evals) + 1

\* db.add(evaluation); await db.commit(); await db.refresh(evaluation)
TaskSaveEval(t) ==
    /\ tasks[t].pc = "save_eval"
    /\ evals' = evals \cup { [id |-> NextEvalId, name |-> tasks[t].reply,
                              created |-> clock] }
    /\ tasks' = [tasks EXCEPT ![t] = [@ EXCEPT !.pc = "link", !.ev = NextEvalId,
                                               !.reply = NoName]]
    /\ UNCHANGED <<cohorts, nextCohort, members, active, reqs, clock, others>>

\* CohortMember(position=i) in _analyze_batch, position=start_pos + i in
\* _analyze_batch_append (i counts from 0 in the code, from 1 here).
LinkPosition(rec) == rec.start + (rec.i - 1)

\* cohort.completed_companies = i + 1, resp. cohort.completed_companies += 1,
\* on the session's copy of the row.
Progress(rec) ==
    IF rec.kind = "batch" THEN rec.i ELSE rec.snap.completed + 1

\* db.add(member); cohort = await db.get(...) (the session's copy);
\* the progress write; await db.commit()
TaskLink(t) ==
    /\ tasks[t].pc = "link"
    /\ LET c == tasks[t].cid
           base == tasks[t].snap
           new == [base EXCEPT !.completed = Progress(tasks[t])] IN
       IF Stale(c, base, new)
       THEN /\ tasks' = [tasks EXCEPT ![t] = Skip(t)]
            /\ UNCHANGED <<cohorts, members>>
       ELSE /\ members' = members (+) SetToBag({ [cohort |-> c, eval |-> tasks[t].ev,
                                                  pos |-> LinkPosition(tasks[t])] })
            /\ cohorts' = [cohorts EXCEPT ![c] = Flush(@, base, new)]
            /\ tasks' = [tasks EXCEPT ![t] = Advance(t, tasks[t])]
    /\ UNCHANGED <<nextCohort, evals, active, reqs, clock, others>>

\* "Mark complete": cohort = await db.get(Cohort, cohort_id)
TaskFinGet(t) ==
    /\ tasks[t].pc = "fin_get"
    /\ LET c == tasks[t].cid IN
       tasks' = [tasks EXCEPT ![t] =
                   IF Exists(c)
                   THEN [@ EXCEPT !.pc = "fin_commit", !.snap = cohorts[c]]
                   ELSE [@ EXCEPT !.pc = "fin_pop"]]
    /\ UNCHANGED <<cohorts, nextCohort, members, evals, active, reqs, clock, others>>

\* cohort.status = "complete"; cohort.current_company = None; await db.commit()
\* No handler around it: StaleDataError ends the task.
TaskFinCommit(t) ==
    /\ tasks[t].pc = "fin_commit"
    /\ LET c == tasks[t].cid
           base == tasks[t].snap
           new == [base EXCEPT !.status = "complete", !.current = NoName] IN
       IF Stale(c, base, new)
       THEN /\ tasks' = [tasks EXCEPT ![t] = DoneTask(c, @.kind, "crashed")]
            /\ UNCHANGED cohorts
       ELSE /\ cohorts' = [cohorts EXCEPT ![c] = Flush(@, base, new)]
            /\ tasks' = [tasks EXCEPT ![t] = [@ EXCEPT !.pc = "fin_pop", !.snap = NoRow]]
    /\ UNCHANGED <<nextCohort, members, evals, active, reqs, clock, others>>

\* self._active_tasks.pop(cohort_id, None)
TaskFinPop(t) ==
    /\ tasks[t].pc = "fin_pop"
    /\ active' = [active EXCEPT ![tasks[t].cid] = 0]
    /\ tasks' = [tasks EXCEPT ![t] = DoneTask(@.cid, @.kind, "done")]
    /\ UNCHANGED <<cohorts, nextCohort, members, evals, reqs, clock, others>>

\* -------------------------------------------- PUT /api/cohorts/{cohort_id}
\* routers/cohorts.py edit_cohort, then CohortService.edit_cohort:
\* cohort = await db.get(...); not found: 404; status neither complete nor
\* error: ValueError, answered 400.
\* A status check that also lets a cohort under analysis through.
EditAllowedAnyStatus(status) == status \in {"complete", "error", "analyzing"}

EditAllowed(status) == status \in {"complete", "error"}

EditCohort(r, c, add, rm) ==
    /\ Sendable(r)
    /\ reqs' = [reqs EXCEPT ![r] =
                  IF ~Exists(c) THEN Answered("edit", c, "notfound")
                  ELSE IF ~EditAllowed(cohorts[c].status) THEN Answered("edit", c, "rejected")
                  ELSE [NewReq EXCEPT
                          !.op = "edit", !.cid = c, !.add = add, !.rm = rm,
                          !.snap = cohorts[c],
                          !.pc = IF rm # <<>> THEN "rm_select"
                                 ELSE IF add # <<>> THEN "add_names" ELSE "detail"]]
    /\ UNCHANGED <<cohorts, nextCohort, members, evals, active, tasks, clock, others>>

\* select(CohortMember).where(cohort_id == ...).where(evaluation_id.in_(...))
\* returned; every row found is marked deleted in the session.
EditRmSelect(r) ==
    /\ reqs[r].op = "edit" /\ reqs[r].pc = "rm_select"
    /\ LET hit == { m \in MembersOf(reqs[r].cid) : m.eval \in SeqRange(reqs[r].rm) } IN
       reqs' = [reqs EXCEPT ![r] = [@ EXCEPT !.pc = "rm_commit",
                                             !.found = [m \in hit |-> members[m]]]]
    /\ UNCHANGED <<cohorts, nextCohort, members, evals, active, tasks, clock, others>>

\* cohort.total_companies -= len(remove_eval_ids)
\* cohort.completed_companies = max(0, cohort.completed_companies - len(remove_eval_ids))
Removed(row, rm) ==
    [row EXCEPT !.total = row.total - Len(rm),
                !.completed = Max(0, row.completed - Len(rm))]

\* await db.commit() of the removal.  A DELETE that matches no row only warns.
EditRmCommit(r) ==
    /\ reqs[r].op = "edit" /\ reqs[r].pc = "rm_commit"
    /\ LET c == reqs[r].cid
           base == reqs[r].snap
           new == Removed(base, reqs[r].rm) IN
       IF Stale(c, base, new)
       THEN /\ reqs' = [reqs EXCEPT ![r] = Answered("edit", reqs[r].cid, "failed")]
            /\ UNCHANGED <<cohorts, members>>
       ELSE /\ members' = members (-) reqs[r].found
            /\ cohorts' = [cohorts EXCEPT ![c] = Flush(@, base, new)]
            /\ reqs' = [reqs EXCEPT ![r] =
                          [@ EXCEPT !.snap = new, !.found = EmptyBag,
                                    !.pc = IF reqs[r].add # <<>> THEN "add_names"
                                           ELSE "detail"]]
    /\ UNCHANGED <<nextCohort, evals, active, tasks, clock, others>>

\* existing_names = {r[0].lower() for r in ...}: the company names of the
\* evaluations the cohort links.
ExistingNames(c) ==
    { Lower(e.name) : e \in { e \in evals : \E m \in MembersOf(c) : m.eval = e.id } }

\* The select of the members' company names returned; the new names are
\* cleaned against them.
EditAddNames(r) ==
    /\ reqs[r].op = "edit" /\ reqs[r].pc = "add_names"
    /\ LET clean == DedupLoop(reqs[r].add, ExistingNames(reqs[r].cid), <<>>) IN
       reqs' = [reqs EXCEPT ![r] =
                  [@ EXCEPT !.clean = clean,
                            !.pc = IF clean # <<>> THEN "max_pos" ELSE "detail"]]
    /\ UNCHANGED <<cohorts, nextCohort, members, evals, active, tasks, clock, others>>

\* max_pos = pos_result.scalar() or 0; start_pos = max_pos + 1
StartPos(c) ==
    LET ps == { m.pos : m \in MembersOf(c) } IN
    (IF ps = {} THEN 0 ELSE CHOOSE p \in ps : \A q \in ps : q <= p) + 1

EditMaxPos(r) ==
    /\ reqs[r].op = "edit" /\ reqs[r].pc = "max_pos"
    /\ reqs' = [reqs EXCEPT ![r] = [@ EXCEPT !.start = StartPos(reqs[r].cid),
                                             !.pc = "add_commit"]]
    /\ UNCHANGED <<cohorts, nextCohort, members, evals, active, tasks, clock, others>>

\* cohort.status = "analyzing"; cohort.total_companies += len(clean_new);
\* cohort.current_company = clean_new[0]; await db.commit()
Reopened(row, clean) ==
    [row EXCEPT !.status = "analyzing", !.total = row.total + Len(clean),
                !.current = clean[1]]

EditAddCommit(r) ==
    /\ reqs[r].op = "edit" /\ reqs[r].pc = "add_commit"
    /\ LET c == reqs[r].cid
           base == reqs[r].snap
           new == Reopened(base, reqs[r].clean) IN
       IF Stale(c, base, new)
       THEN /\ reqs' = [reqs EXCEPT ![r] = Answered("edit", reqs[r].cid, "failed")]
            /\ UNCHANGED cohorts
       ELSE /\ cohorts' = [cohorts EXCEPT ![c] = Flush(@, base, new)]
            /\ reqs' = [reqs EXCEPT ![r] = [@ EXCEPT !.snap = new, !.pc = "add_refresh"]]
    /\ UNCHANGED <<nextCohort, members, evals, active, tasks, clock, others>>

\* await db.refresh(cohort) returned; the append task is created and
\* registered under the cohort's id.
EditAddRefresh(r) ==
    /\ reqs[r].op = "edit" /\ reqs[r].pc = "add_refresh"
    /\ LET c == reqs[r].cid IN
       IF Exists(c)
       THEN /\ tasks' = Append(tasks, NewTask(c, "append", reqs[r].clean, reqs[r].start))
            /\ active' = [active EXCEPT ![c] = Len(tasks) + 1]
            /\ reqs' = [reqs EXCEPT ![r] = [@ EXCEPT !.snap = cohorts[c], !.pc = "detail"]]
       ELSE /\ reqs' = [reqs EXCEPT ![r] = Answered("edit", reqs[r].cid, "failed")]
            /\ UNCHANGED <<tasks, active>>
    /\ UNCHANGED <<cohorts, nextCohort, members, evals, clock, others>>

\* return await self.get_cohort_detail(cohort_id, db): the session's copy of
\* the row and a select of the members.
EditDetail(r) ==
    /\ reqs[r].op = "edit" /\ reqs[r].pc = "detail"
    /\ reqs' = [reqs EXCEPT ![r] = Answered("edit", reqs[r].cid, "ok")]
    /\ UNCHANGED <<cohorts, nextCohort, members, evals, active, tasks, clock, others>>

\* ----------------------------------------- DELETE /api/cohorts/{cohort_id}
\* task = self._active_tasks.pop(cohort_id, None)
\* if task and not task.done(): task.cancel()
Cancelled(c) ==
    LET t == active[c] IN
    IF t # 0 /\ ~Done(t)
    THEN [tasks EXCEPT ![t] = DoneTask(@.cid, @.kind, "cancelled")]
    ELSE tasks

\* cohort = await db.get(...) returned: not found, or the registered task is
\* popped and cancelled.
DeleteCohort(r, c) ==
    /\ Sendable(r)
    /\ IF ~Exists(c)
       THEN /\ reqs' = [reqs EXCEPT ![r] = Answered("delete", c, "notfound")]
            /\ UNCHANGED <<active, tasks>>
       ELSE /\ tasks' = Cancelled(c)
            /\ active' = [active EXCEPT ![c] = 0]
            /\ reqs' = [reqs EXCEPT ![r] =
                          [NewReq EXCEPT !.op = "delete", !.cid = c, !.pc = "del_select"]]
    /\ UNCHANGED <<cohorts, nextCohort, members, evals, clock, others>>

\* A select of the links without the where clause: the links of every cohort
\* are marked deleted.
DeleteSelectEveryCohort(r) ==
    /\ reqs[r].op = "delete" /\ reqs[r].pc = "del_select"
    /\ reqs' = [reqs EXCEPT ![r] = [@ EXCEPT !.pc = "del_commit", !.found = members]]
    /\ UNCHANGED <<cohorts, nextCohort, members, evals, active, tasks, clock, others>>

\* select(CohortMember).where(cohort_id == ...) returned; the rows and the
\* cohort are marked deleted in the session.
DeleteSelect(r) ==
    /\ reqs[r].op = "delete" /\ reqs[r].pc = "del_select"
    /\ reqs' = [reqs EXCEPT ![r] =
                  [@ EXCEPT !.pc = "del_commit",
                            !.found = [m \in MembersOf(reqs[r].cid) |-> members[m]]]]
    /\ UNCHANGED <<cohorts, nextCohort, members, evals, active, tasks, clock, others>>

\* await db.delete(cohort); await db.commit(); return True
DeleteCommit(r) ==
    /\ reqs[r].op = "delete" /\ reqs[r].pc = "del_commit"
    /\ members' = members (-) reqs[r].found
    /\ cohorts' = [cohorts EXCEPT ![reqs[r].cid] = NoRow]
    /\ reqs' = [reqs EXCEPT ![r] = Answered("delete", reqs[r].cid, "ok")]
    /\ UNCHANGED <<nextCohort, evals, active, tasks, clock, others>>

\* ------------------------------------------------------------- the clock
Tick ==
    /\ clock < InitClock + MaxTicks * TickHours
    /\ clock' = clock + TickHours
    /\ UNCHANGED <<cohorts, nextCohort, members, evals, active, tasks, reqs, others>>

\* ------------------------------------------------------------------- Spec
\* Two requests, each a creation, an edit or a deletion, and the tasks they
\* start, in every interleaving; the clock stands still.
CreateInputs == { <<>>, << <<"a">> >> }
AddLists == { <<>>, << <<" ", "C">>, <<"c">> >> }
RemoveLists == { <<>>, <<1>>, <<2, 2, 7>> }

Next ==
    \/ \E r \in Requests, raw \in CreateInputs : CreateCohort(r, raw)
    \/ \E r \in Requests : CreateRefresh(r)
    \/ \E r \in Requests, c \in CohortIds, add \in AddLists, rm \in RemoveLists :
         EditCohort(r, c, add, rm)
    \/ \E r \in Requests : EditRmSelect(r)
    \/ \E r \in Requests : EditRmCommit(r)
    \/ \E r \in Requests : EditAddNames(r)
    \/ \E r \in Requests : EditMaxPos(r)
    \/ \E r \in Requests : EditAddCommit(r)
    \/ \E r \in Requests : EditAddRefresh(r)
    \/ \E r \in Requests : EditDetail(r)
    \/ \E r \in Requests, c \in CohortIds : DeleteCohort(r, c)
    \/ \E r \in Requests : DeleteSelect(r)
    \/ \E r \in Requests : DeleteCommit(r)
    \/ \E t \in TaskIds : TaskGet(t)
    \/ \E t \in TaskIds : TaskCurCommit(t)
    \/ \E t \in TaskIds : TaskLookup(t)
    \/ \E t \in TaskIds : TaskSaveEval(t)
    \/ \E t \in TaskIds : TaskLink(t)
    \/ \E t \in TaskIds : TaskFinGet(t)
    \/ \E t \in TaskIds : TaskFinCommit(t)
    \/ \E t \in TaskIds : TaskFinPop(t)

Spec == Init /\ [][Next]_vars

\* ------------------------------------------------------------ SpecCreate
\* One creation request with any list of at most MaxInput raw names, and
\* the batch it starts.
AllInputs == UNION { [1..k -> RawNames] : k \in 0..MaxInput }

InitCreate == InitWith(EmptyDB)

NextCreate ==
    \/ \E raw \in AllInputs : CreateCohort("r1", raw)
    \/ CreateRefresh("r1")
    \/ \E t \in TaskIds : TaskGet(t)
    \/ \E t \in TaskIds : TaskCurCommit(t)
    \/ \E t \in TaskIds : TaskLookup(t)
    \/ \E t \in TaskIds : TaskSaveEval(t)
    \/ \E t \in TaskIds : TaskLink(t)
    \/ \E t \in TaskIds : TaskFinGet(t)
    \/ \E t \in TaskIds : TaskFinCommit(t)
    \/ \E t \in TaskIds : TaskFinPop(t)

SpecCreate == InitCreate /\ [][NextCreate]_vars

\* ------------------------------------------------------------- SpecReuse
\* Creations and additions of names the database may hold evaluations of,
\* while the clock advances.
ReuseInputs == { << <<"a">>, <<"B">> >> }
ReuseAdds == { << <<"b">>, <<"C">> >> }

NextReuse ==
    \/ \E r \in Requests, raw \in ReuseInputs : CreateCohort(r, raw)
    \/ \E r \in Requests : CreateRefresh(r)
    \/ \E r \in Requests, add \in ReuseAdds : EditCohort(r, 1, add, <<>>)
    \/ \E r \in Requests : EditAddNames(r)
    \/ \E r \in Requests : EditMaxPos(r)
    \/ \E r \in Requests : EditAddCommit(r)
    \/ \E r \in Requests : EditAddRefresh(r)
    \/ \E r \in Requests : EditDetail(r)
    \/ \E t \in TaskIds : TaskGet(t)
    \/ \E t \in TaskIds : TaskCurCommit(t)
    \/ \E t \in TaskIds : TaskLookup(t)
    \/ \E t \in TaskIds : TaskSaveEval(t)
    \/ \E t \in TaskIds : TaskLink(t)
    \/ \E t \in TaskIds : TaskFinGet(t)
    \/ \E t \in TaskIds : TaskFinCommit(t)
    \/ \E t \in TaskIds : TaskFinPop(t)
    \/ Tick

SpecReuse == Init /\ [][NextReuse]_vars

\* ================================================================ zones
\* The scores of the functions below are integers.
MaxScore == 100

Zones == {"fortress", "compression", "adaptation", "dead"}

\* A split that puts a score of exactly 50 on the low side.
derive_zone_above(x_score, y_score) ==
    IF x_score > 50 /\ y_score > 50 THEN "fortress"
    ELSE IF x_score <= 50 /\ y_score > 50 THEN "compression"
    ELSE IF x_score > 50 /\ y_score <= 50 THEN "adaptation"
    ELSE "dead"

\* cohort_service.derive_zone (int() of an integer is the integer)
derive_zone(x_score, y_score) ==
    LET x == x_score
        y == y_score IN
    IF x >= 50 /\ y >= 50 THEN "fortress"
    ELSE IF x < 50 /\ y >= 50 THEN "compression"
    ELSE IF x >= 50 /\ y < 50 THEN "adaptation"
    ELSE "dead"

\* EvaluatorService._derive_zone
_derive_zone(x_score, y_score) ==
    IF x_score >= 50 /\ y_score >= 50 THEN "fortress"
    ELSE IF x_score < 50 /\ y_score >= 50 THEN "compression"
    ELSE IF x_score >= 50 /\ y_score < 50 THEN "adaptation"
    ELSE "dead"

\* SpecZone: both functions applied to one pair of scores.
InitZone ==
    /\ CohortsAt(EmptyDB)
    /\ scores = <<>> /\ shown = NoValue /\ cached_all = <<>> /\ news = NoCall
    /\ RuntimeIdle
    /\ input \in [x : 0..MaxScore, y : 0..MaxScore]
    /\ output = NoValue

DeriveZone ==
    /\ output = NoValue
    /\ output' = [cohort |-> derive_zone(input.x, input.y),
                  evaluator |-> _derive_zone(input.x, input.y)]
    /\ UNCHANGED <<cohorts, nextCohort, members, evals, active, tasks, reqs, clock, runtime,
                   scores, shown, cached_all, news, input>>

NextZone == DeriveZone

SpecZone == InitZone /\ [][NextZone]_vars

\* ========================================================= evaluations
\* The collaborator's reply, as far as the scores go: the values of the
\* x_factors and y_factors maps (<<>>: the map is missing or empty, which the
\* code does not tell apart), its own x_score and y_score (<<>>: missing),
\* and its zone.
MaxEvals == 1        \* evaluations persisted in a run of SpecScore

XFactors == { <<>>, <<25, -3, 5, 5, 5>>, <<20, 20, 20, 20, 20, 20>> }
YFactors == { <<>>, <<10, 10, 10, 10, 10>> }
XTotals == { <<>>, <<-7>>, <<250>> }
YTotals == { <<>>, <<37>> }

Replies ==
    [x_factors : XFactors, y_factors : YFactors, x_score : XTotals,
     y_score : YTotals, zone : {"fortress", "dead"}]

Min(a, b) == IF a <= b THEN a ELSE b

RECURSIVE SumSeq(_)
SumSeq(s) == IF s = <<>> THEN 0 ELSE Head(s) + SumSeq(Tail(s))

\* {k: max(0, min(20, v)) for k, v in (x_f or {}).items()}
Clamped(f) == [k \in 1..Len(f) |-> Max(0, Min(20, f[k]))]

\* raw.get("x_score", 50)
Get(field, default) == IF field = <<>> THEN default ELSE field[1]

\* A score that adds the factors up as the collaborator gave them.
CohortScoreUnclamped(f, total) ==
    IF f # <<>> THEN SumSeq(f) ELSE Max(0, Min(100, Get(total, 50)))

\* sum(x_f_clamped.values()) if x_f_clamped else max(0, min(100, raw.get("x_score", 50)))
CohortScore(f, total) ==
    IF Clamped(f) # <<>> THEN SumSeq(Clamped(f)) ELSE Max(0, Min(100, Get(total, 50)))

\* if x_factors: sum(max(0, min(20, v)) for v in x_factors.values())
\* else: max(0, min(100, result.get("x_score", 50)))
EvaluatorScore(f, total) ==
    IF f # <<>> THEN SumSeq([k \in 1..Len(f) |-> Max(0, Min(20, f[k]))])
    ELSE Max(0, Min(100, Get(total, 50)))

\* An Evaluation that takes the zone from the reply.
CohortRowReplyZone(raw, path) ==
    [x_score |-> CohortScore(raw.x_factors, raw.x_score),
     y_score |-> CohortScore(raw.y_factors, raw.y_score),
     zone |-> raw.zone, reply |-> raw, path |-> path]

\* Evaluation(zone=derive_zone(x_sc, y_sc), x_score=x_sc, y_score=y_sc, ...) of
\* _analyze_batch and _analyze_batch_append; reply and path record where the
\* row came from.
CohortRow(raw, path) ==
    LET x_sc == CohortScore(raw.x_factors, raw.x_score)
        y_sc == CohortScore(raw.y_factors, raw.y_score) IN
    [x_score |-> x_sc, y_score |-> y_sc, zone |-> derive_zone(x_sc, y_sc),
     reply |-> raw, path |-> path]

\* Evaluation(zone=zone, x_score=x_score, y_score=y_score, ...) of
\* EvaluatorService.analyze_company
EvaluatorRow(raw) ==
    LET x_score == EvaluatorScore(raw.x_factors, raw.x_score)
        y_score == EvaluatorScore(raw.y_factors, raw.y_score) IN
    [x_score |-> x_score, y_score |-> y_score, zone |-> _derive_zone(x_score, y_score),
     reply |-> raw, path |-> "analyze"]

\* The collaborator returned `raw` to _analyze_batch; the Evaluation is saved.
BatchSave(raw) ==
    /\ Len(scores) < MaxEvals
    /\ scores' = Append(scores, CohortRow(raw, "batch"))
    /\ UNCHANGED <<cohorts, nextCohort, members, evals, active, tasks, reqs, clock, runtime,
                   shown, cached_all, news, input, output>>

\* The same in _analyze_batch_append.
AppendSave(raw) ==
    /\ Len(scores) < MaxEvals
    /\ scores' = Append(scores, CohortRow(raw, "append"))
    /\ UNCHANGED <<cohorts, nextCohort, members, evals, active, tasks, reqs, clock, runtime,
                   shown, cached_all, news, input, output>>

\* The same in EvaluatorService.analyze_company.
AnalyzeSave(raw) ==
    /\ Len(scores) < MaxEvals
    /\ scores' = Append(scores, EvaluatorRow(raw))
    /\ UNCHANGED <<cohorts, nextCohort, members, evals, active, tasks, reqs, clock, runtime,
                   shown, cached_all, news, input, output>>

\* GET /api/evaluator/{eval_id}: the stored zone and scores.
GetEvaluation(k) ==
    /\ shown' = [path |-> "get_evaluation", zone |-> scores[k].zone,
                 x_score |-> scores[k].x_score, y_score |-> scores[k].y_score]
    /\ UNCHANGED <<cohorts, nextCohort, members, evals, active, tasks, reqs, clock, runtime,
                   scores, cached_all, news, input, output>>

\* EvaluatorService._evaluation_to_dict, for get_history (and the answer of
\* analyze_company): the zone derived from the stored scores.
GetHistory(k) ==
    /\ shown' = [path |-> "history",
                 zone |-> _derive_zone(scores[k].x_score, scores[k].y_score),
                 x_score |-> scores[k].x_score, y_score |-> scores[k].y_score]
    /\ UNCHANGED <<cohorts, nextCohort, members, evals, active, tasks, reqs, clock, runtime,
                   scores, cached_all, news, input, output>>

\* A member of CohortService.get_cohort_detail
CohortDetail(k) ==
    /\ shown' = [path |-> "cohort_detail",
                 zone |-> derive_zone(scores[k].x_score, scores[k].y_score),
                 x_score |-> scores[k].x_score, y_score |-> scores[k].y_score]
    /\ UNCHANGED <<cohorts, nextCohort, members, evals, active, tasks, reqs, clock, runtime,
                   scores, cached_all, news, input, output>>

\* A company of CohortService.get_cohort_matrix
CohortMatrix(k) ==
    /\ shown' = [path |-> "cohort_matrix",
                 zone |-> derive_zone(scores[k].x_score, scores[k].y_score),
                 x_score |-> scores[k].x_score, y_score |-> scores[k].y_score]
    /\ UNCHANGED <<cohorts, nextCohort, members, evals, active, tasks, reqs, clock, runtime,
                   scores, cached_all, news, input, output>>

NextScore ==
    \/ \E raw \in Replies : BatchSave(raw)
    \/ \E raw \in Replies : AppendSave(raw)
    \/ \E raw \in Replies : AnalyzeSave(raw)
    \/ \E k \in 1..Len(scores) : GetEvaluation(k)
    \/ \E k \in 1..Len(scores) : GetHistory(k)
    \/ \E k \in 1..Len(scores) : CohortDetail(k)
    \/ \E k \in 1..Len(scores) : CohortMatrix(k)

InitScore == InitWith(EmptyDB)

SpecScore == InitScore /\ [][NextScore]_vars

\* ======================================================== news scoring
\* A news item: its title (a sequence of characters) and url, the source tag
\* and feed name, the keywords of RELEVANCE_KEYWORDS that occur in the
\* lower-cased "title summary", the engagement counters (0: not given), the
\* age of published_at in hours (<<>>: not a date) and the _ai_bonus (0: none).
SOURCE_AUTHORITY ==
    [n \in {"Wall Street Journal", "Stratechery", "Tomasz Tunguz"} |-> 20] @@
    [n \in {"Reuters", "Financial Times", "Dwarkesh Patel"} |-> 19] @@
    [n \in {"Bloomberg", "Techmeme", "Don't Short SaaS", "The SaaS Playbook",
            "Newcomer", "TBPN", "Invest Like the Best"} |-> 18] @@
    [n \in {"Institutional", "Pragmatic Engineer", "Lenny's Newsletter", "SaaStr",
            "Prof G Markets", "Capital Allocators"} |-> 17] @@
    [n \in {"CNBC", "TechCrunch AI", "AI News Digest", "Not Boring",
            "One Useful Thing", "Simon Willison"} |-> 16] @@
    [n \in {"The Generalist"} |-> 15] @@
    [n \in {"Ars Technica", "The Verge AI"} |-> 14] @@
    [n \in {"Hacker News", "r/MachineLearning"} |-> 12] @@
    [n \in {"r/SaaS", "r/LocalLLaMA", "r/OpenAI", "r/ClaudeAI"} |-> 10] @@
    [n \in {"r/artificial", "r/singularity", "r/ChatGPT", "r/startups"} |-> 9] @@
    [n \in {"r/technology"} |-> 8]

DEFAULT_AUTHORITY == 8

RELEVANCE_KEYWORDS ==
    << [keywords |-> {"saas disruption", "saas dead", "replacing saas", "saas collapse",
                      "ai replacing", "ai agent", "ai-native", "ai native"},
        weight |-> 8],
       [keywords |-> {"saas", "software-as-a-service", "b2b software",
                      "enterprise software", "seat-based", "per-seat",
                      "subscription software"},
        weight |-> 5],
       [keywords |-> {"artificial intelligence", "machine learning",
                      "large language model", "llm", "gpt", "claude", "gemini",
                      "copilot", "foundation model", "frontier model", "ai startup"},
        weight |-> 4],
       [keywords |-> {"revenue compression", "margin pressure", "churn", "displacement",
                      "market share", "disruption", "competitive moat", "pricing power"},
        weight |-> 3],
       [keywords |-> {"funding", "acquisition", "ipo", "earnings", "valuation",
                      "open source", "developer tools", "cloud"},
        weight |-> 1] >>

NoEngagement == [points |-> 0, comments |-> 0, score |-> 0, likes |-> 0, retweets |-> 0]

\* _compute_relevance: each tier counts once; min(score, 40)
_compute_relevance(mentions) ==
    Min(SumSeq([k \in 1..Len(RELEVANCE_KEYWORDS) |->
                  IF RELEVANCE_KEYWORDS[k].keywords \cap mentions # {}
                  THEN RELEVANCE_KEYWORDS[k].weight ELSE 0]),
        40)

\* int(a / b) for b > 0: the quotient rounded towards zero
IntDiv(a, b) == IF a >= 0 THEN a \div b ELSE -((-a) \div b)

\* int(math.log2(n) * 3) for 1 <= n <= 1000
Log2Times3(n) == CHOOSE k \in 0..29 : 2^k <= n * n * n /\ n * n * n < 2^(k + 1)

\* A popularity without the cap at 30.
_compute_popularity_uncapped(item) ==
    LET eng == item.engagement IN
    CASE item.source = "hackernews" -> IntDiv(2 * eng.points + eng.comments, 20)
      [] item.source = "reddit" ->
           IF eng.score > 0 THEN Log2Times3(Max(eng.score, 1)) ELSE 0
      [] item.source = "twitter" ->
           IF eng.likes + eng.retweets * 3 > 0
           THEN Log2Times3(Max(eng.likes + eng.retweets * 3, 1)) ELSE 0
      [] item.source \in {"techcrunch", "rss"} -> 5
      [] item.source = "podcast" -> 8
      [] OTHER -> 0

\* _compute_popularity; raw = points + comments * 0.5, int(raw / 10)
_compute_popularity(item) ==
    LET eng == item.engagement IN
    CASE item.source = "hackernews" ->
           Min(IntDiv(2 * eng.points + eng.comments, 20), 30)
      [] item.source = "reddit" ->
           IF eng.score > 0 THEN Min(Log2Times3(Max(eng.score, 1)), 30) ELSE 0
      [] item.source = "twitter" ->
           IF eng.likes + eng.retweets * 3 > 0
           THEN Min(Log2Times3(Max(eng.likes + eng.retweets * 3, 1)), 30) ELSE 0
      [] item.source \in {"techcrunch", "rss"} -> 5
      [] item.source = "podcast" -> 8
      [] OTHER -> 0

\* _compute_recency, of the age in hours
_compute_recency(age) ==
    IF age = <<>> THEN 0
    ELSE LET hours_ago == age[1] IN
         IF hours_ago < 0 THEN 10
         ELSE IF hours_ago <= 2 THEN 10
         ELSE IF hours_ago <= 6 THEN 8
         ELSE IF hours_ago <= 12 THEN 6
         ELSE IF hours_ago <= 24 THEN 4
         ELSE IF hours_ago <= 48 THEN 2
         ELSE 0

\* _score_item
_score_item(item) ==
    LET relevance == _compute_relevance(item.mentions)
        popularity == _compute_popularity(item)
        authority == IF item.feed_name \in DOMAIN SOURCE_AUTHORITY
                     THEN SOURCE_AUTHORITY[item.feed_name] ELSE DEFAULT_AUTHORITY
        recency == _compute_recency(item.age) IN
    relevance + popularity + authority + recency

\* refresh_news: item["score"] = _score_item(item); with an _ai_bonus,
\* min(item["score"] + ai_bonus, 100)
CachedScore(item) ==
    IF item.bonus # 0 THEN Min(_score_item(item) + item.bonus, 100)
    ELSE _score_item(item)

\* SpecItem: one item as an adapter can return it, scored.  The counters of a
\* feed entry are read with \d+ (rss_client), so they are naturals; the
\* metrics of a tweet are whatever the payload holds; only items that went
\* through the relevance filter carry a bonus.
Counts == {0, 87, 1000}
BigCounts == {0, 87, 5000}
TweetCounts == {-5, 0, 87, 250}
Ages == { <<>>, <<-1>>, <<2>>, <<24>>, <<49>> }
Mentions == { {}, {"saas"}, {"ai agent", "saas", "llm", "churn", "ipo", "cloud"} }
FeedNames == {"Stratechery", "Hacker News", "Some Blog"}

Engagements ==
    [source : {"hackernews"},
     engagement : [points : BigCounts, comments : BigCounts, score : {0}, likes : {0},
                   retweets : {0}],
     bonus : {0}]
    \cup [source : {"reddit"},
          engagement : [points : {0}, comments : {0}, score : Counts, likes : {0},
                        retweets : {0}],
          bonus : {0}]
    \cup [source : {"twitter"},
          engagement : [points : {0}, comments : {0}, score : {0}, likes : TweetCounts,
                        retweets : TweetCounts],
          bonus : {0}]
    \cup [source : {"rss", "podcast"}, engagement : {NoEngagement}, bonus : {0}]
    \cup [source : {"wsj", "institutional"}, engagement : {NoEngagement},
          bonus : {0, 5, 10, 15}]

ScoredItems ==
    { [title |-> <<"t">>, url |-> "u", source |-> e.source, feed_name |-> f,
       mentions |-> m, engagement |-> e.engagement, age |-> a, bonus |-> e.bonus] :
      e \in Engagements, f \in FeedNames, m \in Mentions, a \in Ages }

InitItem ==
    /\ CohortsAt(EmptyDB)
    /\ scores = <<>> /\ shown = NoValue /\ cached_all = <<>> /\ news = NoCall
    /\ RuntimeIdle
    /\ input \in ScoredItems
    /\ output = NoValue

ScoreItem ==
    /\ output = NoValue
    /\ output' = [plain |-> _score_item(input), cached |-> CachedScore(input)]
    /\ UNCHANGED <<cohorts, nextCohort, members, evals, active, tasks, reqs, clock, runtime,
                   scores, shown, cached_all, news, input>>

NextItem == ScoreItem

SpecItem == InitItem /\ [][NextItem]_vars

\* ==================================================== news deduplication
MaxList == 3         \* longest list given to _deduplicate in SpecDedupe

\* A pass that drops the first duplicate it meets and keeps the rest of the
\* list as it is.
RECURSIVE DedupeFirstOnly(_, _, _, _)
DedupeFirstOnly(items, similar, seen, unique) ==
    IF items = <<>> THEN unique
    ELSE LET item == Head(items)
             title == item.title IN
         IF title = <<>> THEN DedupeFirstOnly(Tail(items), similar, seen, unique)
         ELSE IF \E k \in 1..Len(seen) : <<Lower(title), Lower(seen[k])>> \in similar
         THEN unique \o SelectSeq(Tail(items), LAMBDA i : i.title # <<>>)
         ELSE DedupeFirstOnly(Tail(items), similar, Append(seen, title),
                              Append(unique, item))

_deduplicate_first(items, similar) == DedupeFirstOnly(items, similar, <<>>, <<>>)

\* A pass that compares a title with the last kept title only.
RECURSIVE DedupeLastSeen(_, _, _, _)
DedupeLastSeen(items, similar, seen, unique) ==
    IF items = <<>> THEN unique
    ELSE LET item == Head(items)
             title == item.title IN
         IF title = <<>> THEN DedupeLastSeen(Tail(items), similar, seen, unique)
         ELSE IF seen # <<>> /\ <<Lower(title), Lower(seen[Len(seen)])>> \in similar
         THEN DedupeLastSeen(Tail(items), similar, seen, unique)
         ELSE DedupeLastSeen(Tail(items), similar, Append(seen, title),
                             Append(unique, item))

_deduplicate_last_seen(items, similar) == DedupeLastSeen(items, similar, <<>>, <<>>)

\* The loop of _deduplicate: an item without a title is skipped; an item is a
\* duplicate when its lower-cased title is similar to the lower-cased title
\* of an item kept before it.
RECURSIVE DedupeLoop(_, _, _, _)
DedupeLoop(items, similar, seen, unique) ==
    IF items = <<>> THEN unique
    ELSE LET item == Head(items)
             title == item.title
             is_dup == \E k \in 1..Len(seen) :
                          <<Lower(title), Lower(seen[k])>> \in similar IN
         IF title = <<>> THEN DedupeLoop(Tail(items), similar, seen, unique)
         ELSE IF is_dup THEN DedupeLoop(Tail(items), similar, seen, unique)
         ELSE DedupeLoop(Tail(items), similar, Append(seen, title),
                         Append(unique, item))

\* NewsAggregator._deduplicate, `similar` being the pairs of titles whose
\* fuzz.ratio is above 80
_deduplicate(items, similar) == DedupeLoop(items, similar, <<>>, <<>>)

\* len of the longest common subsequence
RECURSIVE LCS(_, _)
LCS(s, t) ==
    IF s = <<>> \/ t = <<>> THEN 0
    ELSE IF Head(s) = Head(t) THEN 1 + LCS(Tail(s), Tail(t))
    ELSE Max(LCS(Tail(s), t), LCS(s, Tail(t)))

\* rapidfuzz fuzz.ratio(s, t) > 80: the ratio is 200 * LCS / (len(s) + len(t))
RatioAbove80(s, t) == 5 * LCS(s, t) > 2 * (Len(s) + Len(t))

Title1 == <<"a", "b", "c", "d", "e", "f">>
Title2 == <<"A", "b", "c", "d", "e", "g">>
Title3 == <<"x", "y", "z">>
Titles == {Title1, Title2, Title3}
LowerTitles == { Lower(t) : t \in Titles }

\* The relation fuzz.ratio(...) > 80 on the lower-cased titles.
FuzzSimilar ==
    LET lowered == LowerTitles \cup {<<" ">>} IN
    { p \in lowered \X lowered : RatioAbove80(p[1], p[2]) }

\* An item of a feed, as far as _deduplicate reads it.
Entry(title, url) ==
    [title |-> title, url |-> url, source |-> "rss", feed_name |-> "Some Blog",
     mentions |-> {}, engagement |-> NoEngagement, age |-> <<>>, bonus |-> 0]

DedupeItems ==
    { Entry(Title1, "u1"), Entry(Title1, "u2"), Entry(Title2, "u3"),
      Entry(Title3, "u4"), Entry(<<>>, "u5") }

SymmetricRelations ==
    { r \in SUBSET (LowerTitles \X LowerTitles) :
        \A p \in r : <<p[2], p[1]>> \in r }

ListsOf(S, n) == UNION { [1..k -> S] : k \in 0..n }

InitDedupe ==
    /\ CohortsAt(EmptyDB)
    /\ scores = <<>> /\ shown = NoValue /\ cached_all = <<>> /\ news = NoCall
    /\ RuntimeIdle
    /\ input \in [items : ListsOf(DedupeItems, MaxList), similar : SymmetricRelations]
    /\ output = NoValue

Dedupe ==
    /\ output = NoValue
    /\ LET once == _deduplicate(input.items, input.similar) IN
       output' = [once |-> once, twice |-> _deduplicate(once, input.similar)]
    /\ UNCHANGED <<cohorts, nextCohort, members, evals, active, tasks, reqs, clock, runtime,
                   scores, shown, cached_all, news, input>>

NextDedupe == Dedupe

SpecDedupe == InitDedupe /\ [][NextDedupe]_vars

\* ======================================================== news adapters
\* The fetches of RSSClient, InstitutionalClient and TwitterClient, each on a
\* cache that holds no fresh entry, so that every fetch calls upstream.  What
\* upstream does in one call is a response: entries ("ok"), a network error,
\* an HTTP error status, or a body that cannot be parsed.
MaxCalls == 2        \* upstream calls (feeds, topic queries, account batches) of one fetch

Upstreams == {"ok", "network", "http", "malformed"}

Story1 == [Entry(Title1, "u1") EXCEPT !.feed_name = "Reuters", !.mentions = {"saas"},
                                      !.age = <<2>>]
Story2 == [Entry(Title2, "u2") EXCEPT !.engagement.points = 300,
                                      !.engagement.likes = 87]
Story3 == [Entry(Title3, "u1") EXCEPT !.mentions = {"ai agent", "llm"},
                                      !.engagement.score = 87, !.age = <<24>>]
Story4 == Entry(<<" ">>, "u4")

\* Story1 and Story3 are two entries with one link and different titles.
Payloads == { <<>>, <<Story1>>, <<Story2, Story3>>, <<Story4, Story1, Story3>> }

Responses ==
    [kind : {"ok"}, entries : Payloads]
    \cup [kind : Upstreams \ {"ok"}, entries : {<<>>}]

\* What a fetch does: it returns a list, or it raises.
Returned(items) == [raised |-> FALSE, items |-> items]
Raised == [raised |-> TRUE, items |-> <<>>]

RECURSIVE ConcatAll(_)
ConcatAll(lists) == IF lists = <<>> THEN <<>> ELSE Head(lists) \o ConcatAll(Tail(lists))

\* FEEDS of rss_client, as many of them as a fetch makes calls
FeedAt(k) ==
    IF k = 1 THEN [name |-> "Hacker News", source_tag |-> "hackernews"]
    ELSE IF k = 2 THEN [name |-> "Stratechery", source_tag |-> "rss"]
    ELSE [name |-> "r/SaaS", source_tag |-> "reddit"]

\* _extract_engagement of rss_client
_extract_engagement(entry, source_tag) ==
    IF source_tag = "hackernews"
    THEN [NoEngagement EXCEPT !.points = entry.engagement.points,
                              !.comments = entry.engagement.comments]
    ELSE IF source_tag = "reddit"
    THEN [NoEngagement EXCEPT !.score = entry.engagement.score]
    ELSE NoEngagement

\* RSSClient.fetch_feed: the items of the entries that have a title; any
\* exception of the parse is caught and gives []
fetch_feed(feed, response) ==
    IF response.kind = "ok"
    THEN LET titled == SelectSeq(response.entries, LAMBDA en : Strip(en.title) # <<>>) IN
         Returned([k \in 1..Len(titled) |->
                     [titled[k] EXCEPT !.title = Strip(titled[k].title),
                                       !.source = feed.source_tag,
                                       !.feed_name = feed.name,
                                       !.engagement =
                                           _extract_engagement(titled[k], feed.source_tag)]])
    ELSE Returned(<<>>)

\* RSSClient.fetch_all_feeds: gather(..., return_exceptions=True), the lists merged
fetch_all_feeds(responses) ==
    Returned(ConcatAll([k \in 1..Len(responses) |->
                          fetch_feed(FeedAt(k), responses[k]).items]))

\* _infer_source of institutional_client, from the publisher named by the entry
_infer_source(publisher) ==
    CASE publisher = "Wall Street Journal" -> "wsj"
      [] publisher = "Reuters" -> "reuters"
      [] publisher = "Financial Times" -> "ft"
      [] publisher = "Bloomberg" -> "bloomberg"
      [] publisher = "CNBC" -> "cnbc"
      [] OTHER -> "institutional"

\* InstitutionalClient._source_display_name
_source_display_name(source) ==
    CASE source = "wsj" -> "Wall Street Journal"
      [] source = "reuters" -> "Reuters"
      [] source = "ft" -> "Financial Times"
      [] source = "bloomberg" -> "Bloomberg"
      [] source = "cnbc" -> "CNBC"
      [] OTHER -> "Institutional"

\* InstitutionalClient._fetch_query
_fetch_query(response) ==
    IF response.kind = "ok"
    THEN LET titled == SelectSeq(response.entries, LAMBDA en : Strip(en.title) # <<>>) IN
         Returned([k \in 1..Len(titled) |->
                     [titled[k] EXCEPT !.title = Strip(titled[k].title),
                                       !.source = _infer_source(titled[k].feed_name),
                                       !.feed_name =
                                           _source_display_name(
                                               _infer_source(titled[k].feed_name)),
                                       !.engagement = NoEngagement]])
    ELSE Returned(<<>>)

\* "Deduplicate by URL" of fetch_institutional_news
RECURSIVE UniqueByUrl(_, _)
UniqueByUrl(items, seen_urls) ==
    IF items = <<>> THEN <<>>
    ELSE IF Head(items).url # "" /\ Head(items).url \notin seen_urls
    THEN <<Head(items)>> \o UniqueByUrl(Tail(items), seen_urls \cup {Head(items).url})
    ELSE UniqueByUrl(Tail(items), seen_urls)

\* InstitutionalClient.fetch_institutional_news
fetch_institutional_news(responses) ==
    Returned(UniqueByUrl(ConcatAll([k \in 1..Len(responses) |->
                                      _fetch_query(responses[k]).items]), {}))

\* f"https://twitter.com/{username or 'i'}/status/{id}": the url of a tweet is
\* built from its id, which is what the url of an upstream entry stands for
StatusUrl(id) ==
    CASE id = "u1" -> "status1" [] id = "u2" -> "status2" [] OTHER -> "status4"

\* TwitterClient._search_with_users: only httpx.HTTPError is caught (a
\* transport error, an error status); resp.json() of a body that is not JSON
\* raises json.JSONDecodeError, which is not one
_search_with_users(response) ==
    CASE response.kind = "ok" ->
           Returned([k \in 1..Len(response.entries) |->
                       [response.entries[k] EXCEPT
                           !.url = StatusUrl(response.entries[k].url),
                           !.source = "twitter", !.feed_name = "",
                           !.engagement =
                               [NoEngagement EXCEPT
                                   !.likes = response.entries[k].engagement.likes,
                                   !.retweets = response.entries[k].engagement.retweets]]])
      [] response.kind \in {"network", "http"} -> Returned(<<>>)
      [] OTHER -> Raised

\* TwitterClient.search_recent
search_recent(bearer_token, response) ==
    IF ~bearer_token THEN Returned(<<>>) ELSE _search_with_users(response)

\* TwitterClient.fetch_curated_accounts: one search per batch of accounts
fetch_curated_accounts(bearer_token, responses) ==
    IF ~bearer_token THEN Returned(<<>>)
    ELSE IF \E k \in 1..Len(responses) : _search_with_users(responses[k]).raised
    THEN Raised
    ELSE Returned(ConcatAll([k \in 1..Len(responses) |->
                               _search_with_users(responses[k]).items]))

Adapters ==
    {"fetch_feed", "fetch_all_feeds", "fetch_institutional_news",
     "fetch_curated_accounts", "search_recent"}

InitFetch ==
    /\ CohortsAt(EmptyDB)
    /\ scores = <<>> /\ shown = NoValue /\ cached_all = <<>> /\ news = NoCall
    /\ RuntimeIdle
    /\ input \in [adapter : Adapters, bearer_token : BOOLEAN,
                  responses : [1..MaxCalls -> Responses]]
    /\ output = NoValue

Fetch ==
    /\ output = NoValue
    /\ output' =
         CASE input.adapter = "fetch_feed" -> fetch_feed(FeedAt(1), input.responses[1])
           [] input.adapter = "fetch_all_feeds" -> fetch_all_feeds(input.responses)
           [] input.adapter = "fetch_institutional_news" ->
                fetch_institutional_news(input.responses)
           [] input.adapter = "fetch_curated_accounts" ->
                fetch_curated_accounts(input.bearer_token, input.responses)
           [] OTHER -> search_recent(input.bearer_token, input.responses[1])
    /\ UNCHANGED <<cohorts, nextCohort, members, evals, active, tasks, reqs, clock, runtime,
                   scores, shown, cached_all, news, input>>

NextFetch == Fetch

SpecFetch == InitFetch /\ [][NextFetch]_vars

\* ------------------------------------------------- the adapters' caches
\* The same fetches on the adapter's _cache: one adapter and one cache key
\* per run, fetched again and again while upstream answers differently and
\* the clock advances.  The Twitter client has a token.
MaxFetches == 3      \* fetches of the key in a run of SpecCache

RSS_TTL_MINUTES == 15
INSTITUTIONAL_TTL_MINUTES == 30
TWITTER_TTL_MINUTES == 240

CachedAdapters == {"fetch_feed", "_fetch_query", "search_recent", "fetch_curated_accounts"}

\* self._cache_ttl of the adapter's client
CacheTtl(adapter) ==
    CASE adapter = "fetch_feed" -> RSS_TTL_MINUTES
      [] adapter = "_fetch_query" -> INSTITUTIONAL_TTL_MINUTES
      [] OTHER -> TWITTER_TTL_MINUTES

\* if cache_key in self._cache: data, ts = ...; if now - ts < self._cache_ttl
Fresh(adapter) ==
    /\ caches # <<>>
    /\ (clock - caches[1].ts) * 60 < CacheTtl(adapter)

\* The upstream calls a fetch makes when the cache does not serve it.
CallsOf(adapter) == IF adapter = "fetch_curated_accounts" THEN 1..MaxCalls ELSE {1}

\* What the fetch does past the cache.
Uncached(adapter, responses) ==
    CASE adapter = "fetch_feed" -> fetch_feed(FeedAt(1), responses[1])
      [] adapter = "_fetch_query" -> _fetch_query(responses[1])
      [] adapter = "search_recent" -> search_recent(TRUE, responses[1])
      [] OTHER -> fetch_curated_accounts(TRUE, responses)

\* Whether the fetch reaches "self._cache[cache_key] = (items, now)": in
\* fetch_feed and _fetch_query the line is inside the try, after the parse;
\* in the Twitter client it follows _search_with_users, which has turned an
\* httpx.HTTPError into [] already.
ReachesCacheWrite(adapter, responses) ==
    IF adapter \in {"fetch_feed", "_fetch_query"}
    THEN responses[1].kind = "ok"
    ELSE ~Uncached(adapter, responses).raised

CacheResponses ==
    { [kind |-> "ok", entries |-> <<Story1>>],
      [kind |-> "ok", entries |-> <<Story2, Story3>>],
      [kind |-> "network", entries |-> <<>>],
      [kind |-> "http", entries |-> <<>>],
      [kind |-> "malformed", entries |-> <<>>] }

InitCache ==
    /\ CohortsAt(EmptyDB)
    /\ scores = <<>> /\ shown = NoValue /\ cached_all = <<>> /\ news = NoCall
    /\ heap = <<>> /\ procs = <<>>
    /\ caches = <<>>
    /\ input \in [adapter : CachedAdapters]
    /\ output = [fetches |-> 0, called |-> FALSE, failed |-> FALSE, result |-> Returned(<<>>)]

\* One fetch of the key.  output records whether it called upstream, whether
\* an upstream call of it failed, and what it returned or raised.
CachedFetch(responses) ==
    /\ output.fetches < MaxFetches
    /\ IF Fresh(input.adapter)
       THEN /\ output' = [fetches |-> output.fetches + 1, called |-> FALSE,
                          failed |-> FALSE, result |-> Returned(caches[1].data)]
            /\ UNCHANGED caches
       ELSE /\ output' = [fetches |-> output.fetches + 1, called |-> TRUE,
                          failed |-> \E k \in CallsOf(input.adapter) :
                                        responses[k].kind # "ok",
                          result |-> Uncached(input.adapter, responses)]
            /\ caches' = IF ReachesCacheWrite(input.adapter, responses)
                         THEN << [data |-> Uncached(input.adapter, responses).items,
                                  ts |-> clock] >>
                         ELSE caches
    /\ UNCHANGED <<cohorts, nextCohort, members, evals, active, tasks, reqs, clock,
                   heap, procs, scores, shown, cached_all, news, input>>

NextCache ==
    \/ \E responses \in [1..MaxCalls -> CacheResponses] : CachedFetch(responses)
    \/ Tick

SpecCache == InitCache /\ [][NextCache]_vars

\* ====================================================== news aggregator
\* NewsAggregator over the three adapters and the relevance filter.  During
\* one run upstream keeps answering each adapter the same way: `input` holds
\* whether there is a filter (claude_client), what it replies, whether the
\* Twitter client has a token, and the response of the press proxy, of the
\* feeds and of the tweet search.  The fields category and content_type of an
\* item and the fundraising cache, which depend on the words of the title
\* only, are not part of the item here.
MaxOps == 2          \* calls on the aggregator (scheduler ticks and queries) in a run

\* json of the filter's answer: "picks" lists [index, relevance_score];
\* "error" is an answer that is not JSON or a failed call; "nonnumeric" is an
\* answer whose relevance_score cannot be compared with a number
FilterReplies ==
    { [kind |-> "error", picks |-> <<>>],
      [kind |-> "nonnumeric", picks |-> <<>>],
      [kind |-> "picks", picks |-> <<>>],
      [kind |-> "picks", picks |-> << [index |-> 1, relevance_score |-> 95],
                                      [index |-> 2, relevance_score |-> 60] >>],
      [kind |-> "picks", picks |-> << [index |-> 1, relevance_score |-> 75],
                                      [index |-> 1, relevance_score |-> 75],
                                      [index |-> 7, relevance_score |-> 99] >>] }

\* ClaudeClient.filter_institutional_news: the items picked, each with its
\* ai_relevance_score; on any exception, the items as they came
filter_institutional_news(items, reply) ==
    IF items = <<>> THEN <<>>
    ELSE IF reply.kind = "picks"
    THEN LET valid == SelectSeq(reply.picks,
                                LAMBDA sc : 0 <= sc.index - 1 /\ sc.index - 1 < Len(items)) IN
         [k \in 1..Len(valid) |->
            [item |-> items[valid[k].index],
             ai_relevance_score |-> valid[k].relevance_score]]
    ELSE [k \in 1..Len(items) |-> [item |-> items[k], ai_relevance_score |-> 0]]

\* refresh_news: item["_ai_bonus"] of a filtered item
AiBonus(ai_score) == IF ai_score >= 90 THEN 15 ELSE IF ai_score >= 75 THEN 10 ELSE 5

\* refresh_news, the institutional block: nothing if the fetch raised; the
\* filtered items with their bonus if there is a filter and something to
\* filter; the raw items if the filter or the bonus loop raised
InstitutionalItems(claude, reply, press) ==
    IF press.raised THEN <<>>
    ELSE IF claude /\ press.items # <<>>
    THEN IF reply.kind = "nonnumeric" THEN press.items
         ELSE LET filtered == filter_institutional_news(press.items, reply) IN
              [k \in 1..Len(filtered) |->
                 [filtered[k].item EXCEPT
                     !.bonus = AiBonus(filtered[k].ai_relevance_score)]]
    ELSE press.items

\* An item as the cache holds it: scored, its _ai_bonus popped.
Scored(item) ==
    [title |-> item.title, url |-> item.url, source |-> item.source,
     feed_name |-> item.feed_name, mentions |-> item.mentions,
     engagement |-> item.engagement, age |-> item.age, score |-> CachedScore(item)]

\* list.sort(key=score, reverse=True) is stable: of two items of equal score
\* the earlier stays first
RECURSIVE SortByScore(_)
SortByScore(items) ==
    IF items = <<>> THEN <<>>
    ELSE LET rest == SortByScore(Tail(items))
             before == SelectSeq(rest, LAMBDA i : i.score > Head(items).score)
             after == SelectSeq(rest, LAMBDA i : i.score <= Head(items).score) IN
         before \o <<Head(items)>> \o after

\* NewsAggregator.refresh_news given what the three fetches do: the fetches
\* of the feeds and of the tweets are awaited outside any try, so an
\* exception of either leaves refresh_news before the cache is assigned
refresh_news(claude, reply, press, feeds, social) ==
    IF feeds.raised \/ social.raised THEN Raised
    ELSE LET all_items == InstitutionalItems(claude, reply, press)
                              \o feeds.items \o social.items
             unique == _deduplicate(all_items, FuzzSimilar) IN
         Returned(SortByScore([k \in 1..Len(unique) |-> Scored(unique[k])]))

\* The same response to every upstream call of a fetch.
Always(response) == [k \in 1..MaxCalls |-> response]

PressFetch == fetch_institutional_news(Always(input.press))
FeedsFetch == fetch_all_feeds(Always(input.feeds))
SocialFetch == fetch_curated_accounts(input.bearer_token, Always(input.social))

\* One refresh cycle in the world of `input`.
Cycle == refresh_news(input.claude, input.reply, PressFetch, FeedsFetch, SocialFetch)

Worlds ==
    { w \in [claude : BOOLEAN, reply : FilterReplies, bearer_token : BOOLEAN,
             press : Responses, feeds : Responses, social : Responses] :
        ~w.claude => w.reply.kind = "error" }

InitNews ==
    /\ CohortsAt(EmptyDB)
    /\ scores = <<>> /\ shown = NoValue /\ cached_all = <<>> /\ news = NoCall
    /\ RuntimeIdle
    /\ input \in Worlds
    /\ output = NoValue

\* scheduler._refresh_news: refresh_news() inside try/except Exception
SchedulerRefresh ==
    /\ news.calls < MaxOps
    /\ \E cycle \in {Cycle} :
          /\ cached_all' = IF cycle.raised THEN cached_all ELSE cycle.items
          /\ news' = [op |-> "scheduler", refreshed |-> TRUE, raised |-> cycle.raised,
                      before |-> news.completed,
                      completed |-> news.completed + (IF cycle.raised THEN 0 ELSE 1),
                      calls |-> news.calls + 1]
    /\ output' = NoValue
    /\ UNCHANGED <<cohorts, nextCohort, members, evals, active, tasks, reqs, clock, runtime,
                   scores, shown, input>>

\* NewsAggregator.get_all_news() with its default arguments, as GET /news
\* calls it: "if not self._cached_all: await self.refresh_news()", then the
\* first 50 items of the cache
GetAllNews ==
    /\ news.calls < MaxOps
    /\ \E cycle \in {IF cached_all = <<>> THEN Cycle ELSE Returned(cached_all)} :
          /\ cached_all' = IF cycle.raised THEN cached_all ELSE cycle.items
          /\ news' = [op |-> "query", refreshed |-> cached_all = <<>>,
                      raised |-> cycle.raised,
                      before |-> news.completed,
                      completed |-> news.completed
                                      + (IF cached_all = <<>> /\ ~cycle.raised
                                         THEN 1 ELSE 0),
                      calls |-> news.calls + 1]
          /\ output' = IF cycle.raised THEN Raised
                       ELSE Returned(SubSeq(cycle.items, 1, Min(Len(cycle.items), 50)))
    /\ UNCHANGED <<cohorts, nextCohort, members, evals, active, tasks, reqs, clock, runtime,
                   scores, shown, input>>

NextNews ==
    \/ SchedulerRefresh
    \/ GetAllNews

SpecNews == InitNews /\ [][NextNews]_vars

\* ======================================================= cohort lookups
\* The read handlers of routers/cohorts.py.  Each reads the cohort row and
\* then the links; it writes nothing, so it is one step.  `shown` is what the
\* handler answers: 200 ("ok") with the number of rows it lists, or 404
\* ("notfound").

\* GET /api/cohorts/{cohort_id}: get_cohort_detail returns None when db.get
\* finds no row, and the router answers 404
GetCohort(c) ==
    /\ shown' = [path |-> "detail", cid |-> c,
                 res |-> IF Exists(c) THEN "ok" ELSE "notfound",
                 rows |-> IF Exists(c) THEN Cardinality(MembersOf(c)) ELSE 0]
    /\ UNCHANGED <<cohorts, nextCohort, members, evals, active, tasks, reqs, clock, runtime,
                   scores, cached_all, news, input, output>>

\* GET /api/cohorts/{cohort_id}/matrix: get_cohort_matrix selects the links
\* of the id without reading the cohort row, and the router returns the list
GetCohortMatrix(c) ==
    /\ shown' = [path |-> "matrix", cid |-> c, res |-> "ok",
                 rows |-> Cardinality(MembersOf(c))]
    /\ UNCHANGED <<cohorts, nextCohort, members, evals, active, tasks, reqs, clock, runtime,
                   scores, cached_all, news, input, output>>

\* GET /api/cohorts/{cohort_id}/report: get_cohort_report_data returns None
\* when there is no row or its status is not complete; the router answers 404
GetCohortReport(c) ==
    /\ shown' = [path |-> "report", cid |-> c,
                 res |-> IF Exists(c) /\ cohorts[c].status = "complete"
                         THEN "ok" ELSE "notfound",
                 rows |-> IF Exists(c) /\ cohorts[c].status = "complete"
                          THEN Cardinality(MembersOf(c)) ELSE 0]
    /\ UNCHANGED <<cohorts, nextCohort, members, evals, active, tasks, reqs, clock, runtime,
                   scores, cached_all, news, input, output>>

\* SpecLookup: reads, removals and deletions addressed to any cohort id, over
\* a database that holds cohort 1 or no cohort.
NextLookup ==
    \/ \E c \in CohortIds : GetCohort(c)
    \/ \E c \in CohortIds : GetCohortMatrix(c)
    \/ \E c \in CohortIds : GetCohortReport(c)
    \/ \E r \in Requests, c \in CohortIds, rm \in RemoveLists : EditCohort(r, c, <<>>, rm)
    \/ \E r \in Requests : EditRmSelect(r)
    \/ \E r \in Requests : EditRmCommit(r)
    \/ \E r \in Requests : EditDetail(r)
    \/ \E r \in Requests, c \in CohortIds : DeleteCohort(r, c)
    \/ \E r \in Requests : DeleteSelect(r)
    \/ \E r \in Requests : DeleteCommit(r)

SpecLookup == Init /\ [][NextLookup]_vars

\* ================================================= news: the item dicts
\* refresh_news and get_all_news on the dicts themselves.  An adapter whose
\* cache entry is fresh returns the list it stored, so a later cycle works on
\* the very dicts an earlier cycle wrote to, and that _cached_all still
\* holds.  Here the press proxy serves dict 1 and the feeds serve dict 2 from
\* their caches in every cycle, and the Twitter client has no token (its
\* fetch returns [] without suspending).  `heap` is the dicts by identity,
\* cached_all and the local all_items are lists of identities, and
\* news.results lists what each finished cycle assigned to the cache.
\*
\* refresh_news suspends at the press fetch and at the feed fetch (both
\* gather tasks); the call of the filter does not suspend (a synchronous
\* client inside the coroutine), and nothing after the feed fetch does.
MaxCycles == 2       \* refresh cycles the scheduler starts

Coroutines == {"scheduler", "query"}

\* A dict as an adapter built it: no category, score or content_type yet.
\* For these dicts `mentions` are the keywords in the title, the summary
\* adding none.
Dict(item) ==
    [title |-> item.title, url |-> item.url, source |-> item.source,
     feed_name |-> item.feed_name, mentions |-> item.mentions,
     engagement |-> item.engagement, age |-> item.age, bonus |-> item.bonus,
     category |-> <<>>, score |-> <<>>, content_type |-> <<>>]

PressDict ==
    Dict([Story1 EXCEPT !.source = "reuters", !.mentions = {"saas", "funding"}])

\* Feed entries: a Reddit post whose content names no score (the dict has no
\* engagement), and a Hacker News post with points.
FeedDicts ==
    { Dict([Story3 EXCEPT !.source = "reddit", !.feed_name = "r/SaaS",
                          !.engagement = NoEngagement]),
      Dict([Story3 EXCEPT !.source = "hackernews", !.feed_name = "Hacker News",
                          !.engagement = [NoEngagement EXCEPT !.points = 300]]) }

\* NewsAggregator._categorize
_categorize(words) ==
    IF words \cap {"funding", "raised", "series", "ipo", "bond", "valuation"} # {}
    THEN "fundraising"
    ELSE IF words \cap {"earnings", "revenue", "quarterly", "profit", "margin"} # {}
    THEN "earnings"
    ELSE IF words \cap {"launch", "release", "announce", "new feature", "product"} # {}
    THEN "product_launch"
    ELSE "ai_disruption"

\* _classify_content_type
_classify_content_type(source) ==
    IF source \in {"wsj", "reuters", "ft", "bloomberg", "cnbc", "institutional"}
    THEN "long_form"
    ELSE IF source \in {"twitter", "reddit", "hackernews", "podcast"} THEN "short_form"
    ELSE "long_form"

\* What _score_item reads in a dict: for a Reddit dict without an engagement
\* score, eng.get("score", item.get("score", 0)) is the dict's own "score"
\* key, which an earlier cycle set
ScoreView(d) ==
    IF d.source = "reddit" /\ d.engagement.score = 0 /\ d.score # <<>>
    THEN [d EXCEPT !.engagement.score = d.score[1]]
    ELSE d

\* The loops of refresh_news over one dict: category if it has none, then
\* (for a dict that survived _deduplicate) score, _ai_bonus popped, content
\* type
Categorized(d) ==
    IF d.category = <<>> THEN [d EXCEPT !.category = <<_categorize(d.mentions)>>] ELSE d

Finished(d) ==
    [d EXCEPT !.score = <<CachedScore(ScoreView(d))>>, !.bonus = 0,
              !.content_type = <<_classify_content_type(d.source)>>]

\* list.sort(key=score, reverse=True) of a list of identities
RECURSIVE SortIds(_, _)
SortIds(ids, h) ==
    IF ids = <<>> THEN <<>>
    ELSE LET rest == SortIds(Tail(ids), h)
             mine == h[Head(ids)].score[1]
             above == SelectSeq(rest, LAMBDA i : h[i].score[1] > mine)
             below == SelectSeq(rest, LAMBDA i : h[i].score[1] <= mine) IN
         above \o <<Head(ids)>> \o below

\* The dicts of a list, as a response serialises them.
View(ids, h) == [k \in 1..Len(ids) |-> h[ids[k]]]

InitCycle ==
    /\ CohortsAt(EmptyDB)
    /\ scores = <<>> /\ shown = NoValue /\ output = NoValue
    /\ input \in { w \in [claude : BOOLEAN, reply : {"error", "picks"},
                          feed : FeedDicts] : ~w.claude => w.reply = "error" }
    /\ heap = <<PressDict, input.feed>>
    /\ cached_all = <<>>
    /\ procs = [p \in Coroutines |-> [pc |-> "idle", all_items |-> <<>>]]
    /\ news = [started |-> 0, results |-> <<>>]
    /\ caches = <<>>

\* scheduler._refresh_news calls refresh_news(), which runs up to
\* "await self._institutional.fetch_institutional_news()"
SchedulerStart ==
    /\ procs["scheduler"].pc = "idle"
    /\ news.started < MaxCycles
    /\ procs' = [procs EXCEPT !["scheduler"] = [pc |-> "press", all_items |-> <<>>]]
    /\ news' = [news EXCEPT !.started = @ + 1]
    /\ UNCHANGED <<cohorts, nextCohort, members, evals, active, tasks, reqs, clock,
                   scores, shown, cached_all, input, output, heap, caches>>

\* GET /news: get_all_news returns the cache if it holds anything, and
\* otherwise awaits refresh_news() first
QueryStart ==
    /\ procs["query"].pc = "idle"
    /\ IF cached_all # <<>>
       THEN /\ output' = Returned(View(cached_all, heap))
            /\ procs' = [procs EXCEPT !["query"].pc = "done"]
       ELSE /\ procs' = [procs EXCEPT !["query"] = [pc |-> "press", all_items |-> <<>>]]
            /\ UNCHANGED output
    /\ UNCHANGED <<cohorts, nextCohort, members, evals, active, tasks, reqs, clock,
                   scores, shown, cached_all, news, input, heap, caches>>

\* The press fetch returned its cached list [dict 1].  With a filter:
\* filter_institutional_news returns copies of the dicts it picked, or on any
\* exception the list it was given; each dict returned gets "_ai_bonus".
\* Then "await self._rss.fetch_all_feeds()".
PressReturned(p) ==
    /\ procs[p].pc = "press"
    /\ IF ~input.claude
       THEN /\ procs' = [procs EXCEPT ![p] = [pc |-> "feeds", all_items |-> <<1>>]]
            /\ UNCHANGED heap
       ELSE IF input.reply = "error"
       THEN /\ heap' = [heap EXCEPT ![1].bonus = AiBonus(0)]
            /\ procs' = [procs EXCEPT ![p] = [pc |-> "feeds", all_items |-> <<1>>]]
       ELSE /\ heap' = Append(heap, [heap[1] EXCEPT !.bonus = AiBonus(95)])
            /\ procs' = [procs EXCEPT ![p] =
                           [pc |-> "feeds", all_items |-> <<Len(heap) + 1>>]]
    /\ UNCHANGED <<cohorts, nextCohort, members, evals, active, tasks, reqs, clock,
                   scores, shown, cached_all, news, input, output, caches>>

\* The feed fetch returned its cached list [dict 2]; the tweets are []; the
\* dicts are categorized, deduplicated, scored, typed and sorted, and
\* self._cached_all = all_items.  get_all_news then returns the cache.
FeedsReturned(p) ==
    /\ procs[p].pc = "feeds"
    /\ LET all_items == procs[p].all_items \o <<2>>
           h1 == [i \in DOMAIN heap |->
                    IF i \in SeqRange(all_items) THEN Categorized(heap[i]) ELSE heap[i]]
           kept == _deduplicate(View(all_items, [i \in DOMAIN heap |-> [id |-> i,
                                                     title |-> heap[i].title]]),
                                FuzzSimilar)
           unique == [k \in 1..Len(kept) |-> kept[k].id]
           h2 == [i \in DOMAIN heap |->
                    IF i \in SeqRange(unique) THEN Finished(h1[i]) ELSE h1[i]]
           sorted == SortIds(unique, h2) IN
       /\ heap' = h2
       /\ cached_all' = sorted
       /\ news' = [news EXCEPT !.results = Append(@, View(sorted, h2))]
       /\ IF p = "query"
          THEN /\ output' = Returned(View(sorted, h2))
               /\ procs' = [procs EXCEPT ![p] = [pc |-> "done", all_items |-> <<>>]]
          ELSE /\ procs' = [procs EXCEPT ![p] = [pc |-> "idle", all_items |-> <<>>]]
               /\ UNCHANGED output
    /\ UNCHANGED <<cohorts, nextCohort, members, evals, active, tasks, reqs, clock,
                   scores, shown, input, caches>>

NextCycle ==
    \/ SchedulerStart
    \/ QueryStart
    \/ \E p \in Coroutines : PressReturned(p)
    \/ \E p \in Coroutines : FeedsReturned(p)

SpecCycle == InitCycle /\ [][NextCycle]_vars


\* ============================================ cohorts under fair scheduling
\* The steps the event loop takes by itself once a request was received or a
\* task was created: every awaited database call returns, and the
\* collaborator's call returns or raises (both are outcomes of TaskLookup).
\* Receiving a request is not among them: no client has to send one.
Scheduled ==
    \/ \E r \in Requests : CreateRefresh(r)
    \/ \E r \in Requests : EditAddNames(r)
    \/ \E r \in Requests : EditMaxPos(r)
    \/ \E r \in Requests : EditAddCommit(r)
    \/ \E r \in Requests : EditAddRefresh(r)
    \/ \E r \in Requests : EditDetail(r)
    \/ \E r \in Requests : DeleteSelect(r)
    \/ \E r \in Requests : DeleteCommit(r)
    \/ \E t \in TaskIds : TaskGet(t)
    \/ \E t \in TaskIds : TaskCurCommit(t)
    \/ \E t \in TaskIds : TaskLookup(t)
    \/ \E t \in TaskIds : TaskSaveEval(t)
    \/ \E t \in TaskIds : TaskLink(t)
    \/ \E t \in TaskIds : TaskFinGet(t)
    \/ \E t \in TaskIds : TaskFinCommit(t)
    \/ \E t \in TaskIds : TaskFinPop(t)

\* Creations, edits that add names, deletions and the tasks they start or
\* cancel; the clock stands still.
NextLive ==
    \/ \E r \in Requests, raw \in CreateInputs : CreateCohort(r, raw)
    \/ \E r \in Requests, c \in CohortIds, add \in AddLists : EditCohort(r, c, add, <<>>)
    \/ \E r \in Requests, c \in CohortIds : DeleteCohort(r, c)
    \/ Scheduled

SpecLive == Init /\ [][NextLive]_vars /\ WF_vars(Scheduled)

\* ============================================================ properties

\* C1: when exactly one entity of a batch fails, the batch still ends with
\* status complete, completed equal to the number of entities that succeeded
\* (one less than the queue), and no link at the failed entity's position.
\* (Stated where the batch has written its final status, in SpecCreate.)
C1_OneFailureCountsSuccesses ==
    \A t \in TaskIds :
        (tasks[t].kind = "batch" /\ tasks[t].pc = "fin_pop"
            /\ Cardinality(tasks[t].failed) = 1)
        => LET c == tasks[t].cid IN
           /\ cohorts[c].status = "complete"
           /\ cohorts[c].completed = Len(tasks[t].names) - 1
           /\ \A m \in MembersOf(c) : (m.pos + 1) \notin tasks[t].failed

\* C2: no cohort id ever has more than one unfinished background task.
C2_OneTaskPerCohort ==
    \A c \in CohortIds : Cardinality(Unfinished(c)) <= 1

\* C3: an edit that finds its cohort in status analyzing is answered with an
\* error, whatever its add and remove lists, and changes neither a cohort
\* row, nor a link, nor an evaluation, nor the registry, nor a task.
C3_EditWhileAnalyzingRejected ==
    [][\A r \in Requests :
         (/\ reqs[r].pc = "new" /\ reqs'[r].op = "edit"
          /\ cohorts[reqs'[r].cid].status = "analyzing")
         => /\ reqs'[r].pc = "done" /\ reqs'[r].res = "rejected"
            /\ UNCHANGED <<cohorts, nextCohort, members, evals, active, tasks>>]_vars

C3_Witness ==
    \E r \in Requests :
        /\ reqs[r].op = "edit" /\ reqs[r].res = "rejected"
        /\ cohorts[reqs[r].cid].status = "analyzing"

\* C4: every cohort row has completed <= total.
C4_CompletedAtMostTotal ==
    \A c \in CohortIds : Exists(c) => cohorts[c].completed <= cohorts[c].total

\* C5: no two links of one cohort have the same position.
C5_PositionsUnique ==
    \A m1 \in BagToSet(members), m2 \in BagToSet(members) :
        (m1.cohort = m2.cohort /\ m1.pos = m2.pos)
        => (m1 = m2 /\ CopiesIn(m1, members) = 1)

\* C6: a batch or append task that looks an entity up while an evaluation of
\* the same name (case-insensitive) is at most 24 hours old makes no call and
\* takes the newest such evaluation, creating none; when there is none so
\* young it makes the call, and the reply is persisted as a new evaluation
\* created now; the link a task writes is to the evaluation it took or made.
EvalsWithin24h(name) ==
    { e \in evals : Lower(e.name) = Lower(name)
                    /\ clock - e.created <= REUSE_THRESHOLD_HOURS }

Key(n) == Lower(Strip(n))

Keys(raw) == { Key(raw[k]) : k \in 1..Len(raw) } \ { <<>> }

FirstAt(raw, key) ==
    CHOOSE k \in 1..Len(raw) :
        Key(raw[k]) = key /\ \A j \in 1..(k - 1) : Key(raw[j]) # key

IsCleanOf(q, raw) ==
    /\ Len(q) = Cardinality(Keys(raw))
    /\ \A i \in 1..Len(q) :
         /\ Lower(q[i]) \in Keys(raw)
         /\ q[i] = Strip(raw[FirstAt(raw, Lower(q[i]))])
    /\ \A i \in 1..Len(q), j \in 1..Len(q) :
         i < j => FirstAt(raw, Lower(q[i])) < FirstAt(raw, Lower(q[j]))

C7_CreateCleansNames ==
    \A r \in Requests :
        (reqs[r].op = "create" /\ reqs[r].cid # 0)
        => /\ cohorts[reqs[r].cid].total = Cardinality(Keys(reqs[r].add))
           /\ reqs[r].add = << <<"A">>, <<"a">>, <<" ", "A", " ">> >>
                => cohorts[reqs[r].cid].total = 1
           /\ reqs[r].pc = "refresh" => IsCleanOf(reqs[r].clean, reqs[r].add)
           /\ reqs[r].res = "ok"
                => /\ \E t \in TaskIds : tasks[t].cid = reqs[r].cid
                   /\ \A t \in TaskIds :
                        (tasks[t].cid = reqs[r].cid /\ ~Done(t))
                        => IsCleanOf(tasks[t].names, reqs[r].add)

C7_Witness ==
    \E r \in Requests, t \in TaskIds :
        /\ reqs[r].op = "create" /\ reqs[r].res = "ok"
        /\ reqs[r].add = << <<"A">>, <<"a">>, <<" ", "A", " ">> >>
        /\ cohorts[reqs[r].cid].total = 1
        /\ tasks[t].cid = reqs[r].cid
        /\ tasks[t].names = << <<"A">> >>

\* C8: a creation whose list holds no non-blank name is rejected: no row is
\* persisted and no task is started.  (Stated in SpecCreate, where the
\* database starts empty and the creation is the only request.)
C8_BlankInputRejected ==
    \A r \in Requests :
        (reqs[r].op = "create" /\ Keys(reqs[r].add) = {})
        => /\ reqs[r].pc = "done" /\ reqs[r].res = "rejected"
           /\ \A c \in CohortIds : ~Exists(c)
           /\ tasks = <<>>

\* C9: no step removes or changes an evaluation; a step of a delete or of an
\* edit leaves the rows and the links of every cohort but the addressed one
\* as they were, and an edit leaves the addressed row in the table.
C9_EvaluationsAndOtherCohortsKept ==
    [][/\ evals \subseteq evals'
       /\ \A r \in Requests :
            (reqs'[r] # reqs[r] /\ reqs'[r].op \in {"edit", "delete"})
            => /\ \A m \in BagToSet(members) \cup BagToSet(members') :
                    m.cohort # reqs'[r].cid
                    => CopiesIn(m, members') = CopiesIn(m, members)
               /\ \A c \in CohortIds \ {reqs'[r].cid} : cohorts'[c] = cohorts[c]
               /\ (reqs'[r].op = "edit" /\ Exists(reqs'[r].cid))
                    => cohorts'[reqs'[r].cid].status # "none"]_vars

\* Cohort 1 was deleted, the evaluations it linked are still there and
\* cohort 2 still has its link.
C9_Witness ==
    /\ \E r \in Requests :
         reqs[r].op = "delete" /\ reqs[r].res = "ok" /\ reqs[r].cid = 1
    /\ CohortDB.evals \subseteq evals
    /\ MembersOf(1) = {}
    /\ MembersOf(2) # {}

\* C10: once a delete of a cohort has returned true, no task of that cohort
\* is unfinished and uncancelled, and the cohort has neither row nor link.
C10_DeleteStopsTask ==
    \A r \in Requests :
        (reqs[r].op = "delete" /\ reqs[r].res = "ok")
        => /\ Unfinished(reqs[r].cid) = {}
           /\ ~Exists(reqs[r].cid)
           /\ MembersOf(reqs[r].cid) = {}

\* C13: for integers x, y in [0,100] the zone is one of the four, fortress
\* iff x >= 50 and y >= 50, compression iff x < 50 and y >= 50, adaptation
\* iff x >= 50 and y < 50, dead otherwise, and derive_zone and
\* EvaluatorService._derive_zone return the same zone.
C13_ZoneOfScores ==
    output # NoValue
    => LET x == input.x
           y == input.y
           z == output.cohort IN
       /\ z \in Zones
       /\ output.evaluator = z
       /\ (z = "fortress") <=> (x >= 50 /\ y >= 50)
       /\ (z = "compression") <=> (x < 50 /\ y >= 50)
       /\ (z = "adaptation") <=> (x >= 50 /\ y < 50)
       /\ (z = "dead") <=> (x < 50 /\ y < 50)

C13_Witness ==
    /\ output # NoValue
    /\ input = [x |-> 50, y |-> 49]
    /\ output.cohort = "adaptation"

\* C11: an evaluation made from a reply with a non-empty x_factors (resp.
\* y_factors) map has x_score (resp. y_score) equal to the sum of its values
\* each clamped to [0, 20]: 35 for 25, -3, 5, 5, 5.  On the batch, the append
\* and the single-entity path.
SumClamped(f) ==
    SumSeq([k \in 1..Len(f) |->
              IF f[k] < 0 THEN 0 ELSE IF f[k] > 20 THEN 20 ELSE f[k]])

C11_ScoreIsSumOfClampedFactors ==
    \A k \in 1..Len(scores) :
        LET row == scores[k] IN
        /\ row.reply.x_factors # <<>> => row.x_score = SumClamped(row.reply.x_factors)
        /\ row.reply.y_factors # <<>> => row.y_score = SumClamped(row.reply.y_factors)
        /\ row.reply.x_factors = <<25, -3, 5, 5, 5>> => row.x_score = 35

C11_Witness ==
    \E k \in 1..Len(scores) :
        /\ scores[k].reply.x_factors = <<25, -3, 5, 5, 5>>
        /\ scores[k].path = "append"
        /\ scores[k].x_score = 35

\* C12: every evaluation persisted has x_score and y_score in [0, 100].
C12_ScoresWithin100 ==
    \A k \in 1..Len(scores) :
        /\ 0 <= scores[k].x_score /\ scores[k].x_score <= 100
        /\ 0 <= scores[k].y_score /\ scores[k].y_score <= 100

\* C14: the zone stored with every evaluation is the zone of its stored
\* scores, and the zone every read path returns (evaluation by id, history,
\* cohort detail, cohort matrix) is the zone of the scores it returns.
ZoneOf(x, y) ==
    CASE x >= 50 /\ y >= 50 -> "fortress"
      [] x < 50 /\ y >= 50 -> "compression"
      [] x >= 50 /\ y < 50 -> "adaptation"
      [] OTHER -> "dead"

C14_ZoneFollowsScores ==
    /\ \A k \in 1..Len(scores) :
         scores[k].zone = ZoneOf(scores[k].x_score, scores[k].y_score)
    /\ shown # NoValue => shown.zone = ZoneOf(shown.x_score, shown.y_score)

\* The collaborator called the company dead, its factors add up to a
\* fortress, and the evaluation read by id says fortress.
C14_Witness ==
    /\ shown # NoValue
    /\ shown.path = "get_evaluation"
    /\ shown.zone = "fortress"
    /\ \E k \in 1..Len(scores) : scores[k].reply.zone = "dead"

\* C15: the score the scorer gives an item, and the score stored in the cache
\* for it (with the bonus of the relevance filter, if it has one), lie in
\* [0, 100].
C15_ScoreWithin100 ==
    output # NoValue
    => /\ 0 <= output.plain /\ output.plain <= 100
       /\ 0 <= output.cached /\ output.cached <= 100

\* An item of the relevance filter: every keyword tier, the highest authority,
\* two hours old, and the largest bonus on top.
C15_Witness ==
    /\ output # NoValue
    /\ input.bonus = 15
    /\ output.plain = 21 + 20 + 10
    /\ output.cached = 66

\* C16: deduplicating a deduplicated list changes nothing (same items, same
\* order), whatever the symmetric title-similarity relation.
C16_DedupeIdempotent ==
    output # NoValue => output.twice = output.once

\* Three items with titles, one of them dropped as similar to another under a
\* relation that is not transitive.
C16_Witness ==
    /\ output # NoValue
    /\ Len(input.items) = 3
    /\ \A k \in 1..3 : input.items[k].title # <<>>
    /\ Len(output.once) = 2
    /\ <<Lower(Title1), Lower(Title2)>> \in input.similar
    /\ <<Lower(Title2), Lower(Title3)>> \in input.similar
    /\ <<Lower(Title1), Lower(Title3)>> \notin input.similar

\* C18: a fetch of an adapter returns a list and does not raise, whatever
\* upstream does (network error, HTTP error, unparsable body).
C18_FetchNeverRaises ==
    output # NoValue => ~output.raised

\* Two items are the same story for the cache when title and url agree.
Ident(items) == { <<items[k].title, items[k].url>> : k \in 1..Len(items) }

\* C17: when one of the three fetches raises and the other two return
\* items, the refresh still completes and the cache becomes a non-empty list,
\* free of similar titles, sorted by descending score, made of the items of
\* the two healthy adapters that survive deduplication.
C17_RefreshSurvivesOneAdapter ==
    LET fetches == <<PressFetch, FeedsFetch, SocialFetch>>
        raising == { k \in 1..3 : fetches[k].raised }
        healthy == { k \in 1..3 : ~fetches[k].raised /\ fetches[k].items # <<>> }
        offered == ConcatAll([k \in 1..3 |-> fetches[k].items]) IN
    (news.refreshed /\ Cardinality(raising) = 1 /\ Cardinality(healthy) = 2)
    => /\ ~news.raised
       /\ cached_all # <<>>
       /\ \A i, j \in 1..Len(cached_all) :
             i < j => /\ cached_all[i].score >= cached_all[j].score
                      /\ <<Lower(cached_all[i].title), Lower(cached_all[j].title)>>
                            \notin FuzzSimilar
       /\ Ident(cached_all) \subseteq Ident(offered)
       /\ ~input.claude
            => Ident(cached_all) = Ident(_deduplicate(offered, FuzzSimilar))

\* C19: a query calls refresh only if no refresh cycle has completed before
\* it, whatever list that cycle produced.
C19_QueryRefreshesOnlyBeforeFirstCycle ==
    (news.op = "query" /\ news.refreshed) => news.before = 0

\* C20: after a refresh cycle no two items of the cached list have the same
\* url.
C20_CachedUrlsUnique ==
    news.completed > 0
    => \A i, j \in 1..Len(cached_all) :
          i # j => cached_all[i].url # cached_all[j].url

\* C21: an operation addressed to a cohort id that has no row (detail,
\* matrix, report, edit, delete) is answered "not found" and leaves the
\* tables as they were.
C21_MissingCohortNotFound ==
    [][\A c \in CohortIds :
          ~Exists(c)
          => /\ (shown' # shown /\ shown'.cid = c)
                  => /\ shown'.res = "notfound"
                     /\ UNCHANGED <<cohorts, members, evals>>
             /\ \A r \in Requests :
                   (reqs[r].pc = "new" /\ reqs'[r].pc # "new" /\ reqs'[r].cid = c)
                   => /\ reqs'[r].res = "notfound"
                      /\ UNCHANGED <<cohorts, members, evals>>]_vars

\* C22: what a query returns is the list a finished refresh cycle assigned
\* to the cache, dict for dict as that cycle left them: never dicts that
\* a cycle still in progress has written to.
C22_QuerySeesFinishedCycle ==
    output # NoValue
    => \E k \in 1..Len(news.results) : output.items = news.results[k]

\* C30: consecutive refresh cycles over the same items at the same clock
\* value (the scheduler's cycles, the adapters serving their caches) give
\* every item the same score and produce the same cached list.
C30_CyclesAgree ==
    procs # <<>> /\ procs["query"].pc = "idle"
    => \A k \in 1..(Len(news.results) - 1) : news.results[k + 1] = news.results[k]

\* C23: while the status of a cohort stays analyzing, completed_companies of
\* its row, which is what a progress poll returns, never decreases from one
\* committed state to the next.
C23_ProgressNeverDecreases ==
    [][\A c \in CohortIds :
          (cohorts[c].status = "analyzing" /\ cohorts'[c].status = "analyzing")
          => cohorts'[c].completed >= cohorts[c].completed]_vars

\* C24: the commit of a removal deletes exactly the links of the cohort whose
\* evaluation id is in the remove list, and lowers total_companies and
\* completed_companies each by the number of links deleted, not below 0.
C24_RemoveCountsLinks ==
    [][\A r \in Requests :
          (/\ reqs[r].op = "edit" /\ reqs[r].pc = "rm_commit"
           /\ reqs'[r].pc \in {"add_names", "detail"})
          => LET c == reqs[r].cid
                 hit == { m \in MembersOf(c) : m.eval \in SeqRange(reqs[r].rm) }
                 gone == [m \in hit |-> members[m]]
                 k == BagCardinality(gone) IN
             /\ members' = members (-) gone
             /\ cohorts'[c].total = Max(0, cohorts[c].total - k)
             /\ cohorts'[c].completed = Max(0, cohorts[c].completed - k)]_vars

\* C25: an edit that adds names to a complete cohort keeps the trimmed,
\* non-empty new names that differ, ignoring case, from each other and from
\* the company names of the current members.  With k >= 1 names kept, its
\* commit sets the status to analyzing and raises total_companies by k, and it
\* launches one append task whose positions start at the highest existing
\* position plus one; with k = 0 it changes neither the row nor the tasks nor
\* the registry.
CleanAgainst(add, existing, clean) ==
    /\ \A i \in 1..Len(clean) :
          /\ clean[i] # <<>>
          /\ \E j \in 1..Len(add) : clean[i] = Strip(add[j])
          /\ Lower(clean[i]) \notin existing
          /\ \A j \in 1..Len(clean) : Lower(clean[i]) = Lower(clean[j]) => i = j
    /\ \A j \in 1..Len(add) :
          (Strip(add[j]) # <<>> /\ Lower(Strip(add[j])) \notin existing)
          => \E i \in 1..Len(clean) : Lower(clean[i]) = Lower(Strip(add[j]))

HighestPos(c) ==
    LET ps == { m.pos : m \in MembersOf(c) } IN
    IF ps = {} THEN 0 ELSE CHOOSE p \in ps : \A q \in ps : q <= p

C25_AddReopensCohort ==
    [][\A r \in Requests :
          LET c == reqs[r].cid
              k == Len(reqs'[r].clean) IN
          /\ (reqs[r].op = "edit" /\ reqs[r].pc = "add_names" /\ reqs'[r].pc # "add_names")
             => /\ CleanAgainst(reqs[r].add, ExistingNames(c), reqs'[r].clean)
                /\ UNCHANGED <<cohorts, tasks, active>>
                /\ reqs'[r].pc = IF k = 0 THEN "detail" ELSE "max_pos"
          /\ (reqs[r].op = "edit" /\ reqs[r].pc = "add_commit" /\ reqs'[r].pc = "add_refresh")
             => /\ cohorts'[c].status = "analyzing"
                /\ cohorts'[c].total = cohorts[c].total + k
                /\ UNCHANGED <<tasks, active>>
          /\ (reqs[r].op = "edit" /\ reqs[r].pc = "add_refresh" /\ reqs'[r].pc = "detail")
             => /\ Len(tasks') = Len(tasks) + 1
                /\ tasks'[Len(tasks')].kind = "append"
                /\ tasks'[Len(tasks')].names = reqs[r].clean
                /\ tasks'[Len(tasks')].start = HighestPos(c) + 1
                /\ active'[c] = Len(tasks')
          /\ (reqs[r].op = "edit" /\ reqs[r].pc = "detail" /\ reqs'[r].pc # "detail")
             => UNCHANGED <<cohorts, tasks, active>>]_vars

\* C26: under fair scheduling a cohort under analysis is eventually complete
\* with no current company, unless it is deleted.
C26_AnalysisCompletes ==
    \A c \in CohortIds :
        (cohorts[c].status = "analyzing")
        ~> (\/ ~Exists(c)
            \/ cohorts[c].status = "complete" /\ cohorts[c].current = NoName)

\* A task ran to its end although an entity of it failed: the cohort is
\* complete with fewer companies completed than requested.
C26_Witness ==
    \E t \in TaskIds :
        /\ tasks[t].pc = "done"
        /\ cohorts[tasks[t].cid].status = "complete"
        /\ cohorts[tasks[t].cid].current = NoName
        /\ cohorts[tasks[t].cid].completed < cohorts[tasks[t].cid].total

\* The items of a list at the indices of K, in the order of the list.
ItemsAt(items, K) ==
    LET F[k \in 0..Len(items)] ==
            IF k = 0 THEN <<>>
            ELSE IF k \in K THEN Append(F[k - 1], items[k]) ELSE F[k - 1] IN
    F[Len(items)]

SimilarAt(i, j) ==
    <<Lower(input.items[i].title), Lower(input.items[j].title)>> \in input.similar

\* The output is the input at the indices of K: no item without a title, and
\* no two items with similar titles.
KeptIndices(K) ==
    /\ output.once = ItemsAt(input.items, K)
    /\ \A i \in K : input.items[i].title # <<>>
    /\ \A i \in K, j \in K : i < j => ~SimilarAt(i, j)

\* C27 as stated: the output is a subsequence of the input without untitled
\* items and without two similar titles, and whenever one of two similar
\* items of the input survives, it is the earlier one.
C27_EarlierOfSimilarSurvives ==
    output # NoValue
    => \E K \in SUBSET (1..Len(input.items)) :
          /\ KeptIndices(K)
          /\ \A i \in 1..Len(input.items), j \in 1..Len(input.items) :
                (/\ i < j
                 /\ input.items[i].title # <<>> /\ input.items[j].title # <<>>
                 /\ SimilarAt(i, j)
                 /\ j \in K)
                => i \in K

\* C27, amended: the output is a subsequence of the input without untitled
\* items and without two similar titles; every titled item that was dropped
\* is similar to an item kept before it, and the first titled item is kept.
C27_DroppedHasEarlierKept ==
    output # NoValue
    => \E K \in SUBSET (1..Len(input.items)) :
          /\ KeptIndices(K)
          /\ \A j \in (1..Len(input.items)) \ K :
                input.items[j].title # <<>>
                => \E i \in K : i < j /\ SimilarAt(i, j)

\* Three titled items, the second similar to the first and to the third, the
\* third not similar to the first: the second is dropped, the third is kept.
C27_Witness ==
    /\ output # NoValue
    /\ Len(input.items) = 3
    /\ \A k \in 1..3 : input.items[k].title # <<>>
    /\ SimilarAt(1, 2) /\ SimilarAt(2, 3) /\ ~SimilarAt(1, 3)
    /\ output.once = <<input.items[1], input.items[3]>>

\* C28: the scores and the zone of a persisted evaluation are the ones any
\* reply with the same factors would have given, whatever x_score and y_score
\* that reply reports.
C28_ReportedTotalsIgnored ==
    \A k \in 1..Len(scores) :
        \A raw \in Replies :
            (/\ raw.x_factors = scores[k].reply.x_factors
             /\ raw.y_factors = scores[k].reply.y_factors
             /\ raw.zone = scores[k].reply.zone)
            => LET other == IF scores[k].path = "analyze" THEN EvaluatorRow(raw)
                            ELSE CohortRow(raw, scores[k].path) IN
               /\ other.x_score = scores[k].x_score
               /\ other.y_score = scores[k].y_score
               /\ other.zone = scores[k].zone

\* C29: a fetch in which an upstream call failed leaves the cache as it was,
\* and the fetch after it calls upstream again.
C29_FailedFetchNotCached ==
    [][/\ (output'.fetches # output.fetches /\ output'.failed) => caches' = caches
       /\ (output'.fetches # output.fetches /\ output.failed) => output'.called]_vars

====
